---- MODULE Spec2Model ----
(***************************************************************************)
(* A model of the Knowledge Base MCP server (package es_knowledge_base_mcp) *)
(* : the Elasticsearch knowledge base client, the bulk tool caller, the    *)
(* Learn server with its crawler and docker helpers, and the Memory server *)
(* with its lifespan context.                                              *)
(*                                                                         *)
(* Requests are asyncio tasks.  Every action below is the part of a        *)
(* handler that runs between two awaits, together with the answer of the   *)
(* backend call the handler awaited; other tasks may run between two       *)
(* actions of one task, as the event loop allows.                          *)
(***************************************************************************)
EXTENDS Integers, Sequences, FiniteSets, TLC

VARIABLES
    indices,     \* the backend: index name -> its _meta.knowledge_base block and documents
    task,        \* manager requests: caller -> the call it is in
    hist,        \* the last two manager calls that returned or raised, oldest first
    bulk,        \* the bulk tool call in progress
    learn,       \* from_web_documentation requests: caller -> the call it is in
    containers,  \* the docker daemon: container id -> its state
    ctx,         \* the memory_context of the RootContext that root_lifespan yields
    rem,         \* Memory server requests: caller -> the call it is in
    rlast,       \* the last Memory server call that returned or raised
    client_call, \* a client call looked at on its own: its arguments, then its outcome
    process      \* main(): where it is, and what it did to the backend connection

mgrVars == <<task, hist>>
bulkVars == <<bulk>>
learnVars == <<learn, containers>>
remVars == <<ctx, rem, rlast>>
callVars == <<client_call, process>>
vars == <<indices, task, hist, bulk, learn, containers, ctx, rem, rlast, client_call, process>>

(***************************************************************************)
(* Bounds and the values callers use.                                      *)
(***************************************************************************)
Callers == {"A", "B"}

\* Knowledge base names; "kb" and "Kb" differ only by case.
Names == {"kb", "Kb"}

Descriptions == {"d1", "d2"}

\* str(uuid.uuid4())[:8] draws one of 16^8 values; the model draws one of these.
Suffixes == {"0a1b2c3d", "4e5f6a7b"}

DocsUrl == "https://ex.com/docs/"

\* Exceptions the Elasticsearch client can raise on any request (a 5xx or a
\* mapping error is an ApiError, a transport error is another Exception).
Faults == {"ApiError", "Exception"}

(***************************************************************************)
(* Text.  Python strings whose characters matter are sequences of          *)
(* one-character strings; Chars spells the values the model uses.          *)
(***************************************************************************)
\* The backquote character, which the lexer does not take inside a string.
Backquote == "<backquote>"

Chars(s) ==
    CASE s = "kb" -> <<"k","b">>
      [] s = "Kb" -> <<"K","b">>
      [] s = "d1" -> <<"d","1">>
      [] s = "d2" -> <<"d","2">>
      [] s = "docs" -> <<"d","o","c","s">>
      [] s = "memory" -> <<"m","e","m","o","r","y">>
      [] s = "kbmcp" -> <<"k","b","m","c","p">>
      [] s = "0a1b2c3d" -> <<"0","a","1","b","2","c","3","d">>
      [] s = "4e5f6a7b" -> <<"4","e","5","f","6","a","7","b">>
      [] s = "https://ex.com/docs/" ->
            <<"h","t","t","p","s",":","/","/","e","x",".","c","o","m","/","d","o","c","s","/">>
      [] s = "Workspace-'kb'" -> <<"W","o","r","k","s","p","a","c","e","-",Backquote,"k","b",Backquote>>
      [] s = "Workspace-'Kb'" -> <<"W","o","r","k","s","p","a","c","e","-",Backquote,"K","b",Backquote>>
      [] s = "This is the memory knowledge base for kb." ->
            <<"T","h","i","s"," ","i","s"," ","t","h","e"," ","m","e","m","o","r","y"," ",
              "k","n","o","w","l","e","d","g","e"," ","b","a","s","e"," ","f","o","r"," ","k","b",".">>
      [] s = "This is the memory knowledge base for Kb." ->
            <<"T","h","i","s"," ","i","s"," ","t","h","e"," ","m","e","m","o","r","y"," ",
              "k","n","o","w","l","e","d","g","e"," ","b","a","s","e"," ","f","o","r"," ","K","b",".">>
      [] s = "m1" -> <<"m","1">>

UpperLetters ==
    <<"A","B","C","D","E","F","G","H","I","J","K","L","M",
      "N","O","P","Q","R","S","T","U","V","W","X","Y","Z">>

LowerLetters ==
    <<"a","b","c","d","e","f","g","h","i","j","k","l","m",
      "n","o","p","q","r","s","t","u","v","w","x","y","z">>

Digits == {"0","1","2","3","4","5","6","7","8","9"}

Range(f) == {f[i] : i \in DOMAIN f}

\* The capital I with a dot above (U+0130), a letter whose lower case is two
\* characters: i and the combining dot above (U+0307).
DottedI == "<capital I with dot above>"

\* str.lower(), the first character of the lower case of one character
lower_char(c) ==
    IF \E i \in 1..26 : UpperLetters[i] = c
    THEN LowerLetters[CHOOSE i \in 1..26 : UpperLetters[i] = c]
    ELSE IF c = DottedI THEN "i"
    ELSE c

\* str.lower(): character by character, the dotted capital I giving two
lower(s) ==
    LET dotted == {i \in DOMAIN s : s[i] = DottedI}
        at(i) == i + Cardinality({j \in dotted : j < i})
    IN  IF dotted = {} THEN SubSeq([i \in 1..Len(s) |-> lower_char(s[i])], 1, Len(s))
        ELSE [k \in 1..(Len(s) + Cardinality(dotted)) |->
                IF \E i \in dotted : at(i) + 1 = k THEN "<combining dot above>"
                ELSE lower_char(s[CHOOSE i \in DOMAIN s : at(i) = k])]

\* str.isalnum(), one character
isalnum(c) == c \in Range(UpperLetters) \cup Range(LowerLetters) \cup Digits \cup {DottedI}

\* `kw in s`
contains(kw, s) ==
    \E i \in 0..(Len(s) - Len(kw)) : SubSeq(s, i + 1, i + Len(kw)) = kw

\* s.startswith(p)
startswith(s, p) == Len(s) >= Len(p) /\ SubSeq(s, 1, Len(p)) = p

\* s.replace(old, new), non-overlapping, left to right: what stands before
\* the first old, then new, then the rest with its olds replaced
RECURSIVE replace(_, _, _)
replace(s, old, new) ==
    LET found == {i \in 1..(Len(s) - Len(old) + 1) : SubSeq(s, i, i + Len(old) - 1) = old}
        first == CHOOSE i \in found : \A j \in found : i <= j
    IN  IF found = {} THEN s
        ELSE IF Len(old) = 1 /\ Len(new) = 1
        THEN SubSeq([i \in 1..Len(s) |-> IF s[i] = old[1] THEN new[1] ELSE s[i]], 1, Len(s))
        ELSE SubSeq(s, 1, first - 1) \o new
             \o replace(SubSeq(s, first + Len(old), Len(s)), old, new)

\* s.strip(chars)
RECURSIVE lstrip(_, _)
lstrip(s, chars) ==
    IF s # <<>> /\ s[1] \in chars THEN lstrip(Tail(s), chars) ELSE s

RECURSIVE rstrip(_, _)
rstrip(s, chars) ==
    IF s # <<>> /\ s[Len(s)] \in chars THEN rstrip(SubSeq(s, 1, Len(s) - 1), chars) ELSE s

strip(s, chars) == rstrip(lstrip(s, chars), chars)

MaxIndexNameLen == 50

KeptInIndexName(c) == isalnum(c) \/ c \in {"_", "-", "."}

\* ElasticsearchKnowledgeBaseClient._url_to_index_name
url_to_index_name(url) ==
    LET a == replace(url, <<"h","t","t","p","s",":","/","/">>, <<>>)
        b == replace(a, <<"h","t","t","p",":","/","/">>, <<>>)
        c == replace(b, <<".">>, <<"_">>)
        d == replace(c, <<"/">>, <<".">>)
        e == replace(d, <<"-">>, <<"_">>)
        f == SelectSeq(e, KeptInIndexName)
        g == SubSeq(f, 1, IF Len(f) < MaxIndexNameLen THEN Len(f) ELSE MaxIndexNameLen)
    IN  lower(strip(g, {"-", "_", "."}))

(***************************************************************************)
(* ElasticsearchKnowledgeBaseClient: errors.                               *)
(***************************************************************************)
\* The if/elif chain of error_handler's `except ApiError` and `except Exception`
\* branches: the first keyword found in operation.lower() names the error.
error_by_operation(operation, otherwise) ==
    LET op == lower(operation)
    IN  IF contains(<<"u","p","d","a","t","e">>, op) THEN "KnowledgeBaseUpdateError"
        ELSE IF contains(<<"c","r","e","a","t","e">>, op) THEN "KnowledgeBaseCreationError"
        ELSE IF contains(<<"d","e","l","e","t","e">>, op) THEN "KnowledgeBaseDeletionError"
        ELSE IF contains(<<"s","e","a","r","c","h">>, op) THEN "KnowledgeBaseSearchError"
        ELSE IF contains(<<"g","e","t">>, op) THEN "KnowledgeBaseRetrievalError"
        ELSE otherwise

\* error_handler(operation): the error raised when the body raises exc
error_handler(operation, exc) ==
    CASE exc = "NotFoundError" -> "KnowledgeBaseNotFoundError"
      [] exc = "ConflictError" -> "KnowledgeBaseAlreadyExistsError"
      [] exc = "ApiError" -> error_by_operation(operation, "ElasticsearchError")
      [] OTHER -> error_by_operation(operation, "KnowledgeBaseError")

\* "getting knowledge base indices"
op_get == <<"g","e","t","t","i","n","g"," ","k","n","o","w","l","e","d","g","e"," ",
            "b","a","s","e"," ","i","n","d","i","c","e","s">>

\* str(index_mappings) in create: CRAWLER_INDEX_MAPPING (of its properties the
\* one for body is spelled; the others are made of the same words, none of which
\* holds a keyword of error_by_operation), then _meta, then the runtime field.
mappings_text(proto) ==
    <<"{","'","p","r","o","p","e","r","t","i","e","s","'",":"," ","{","'","b","o","d","y","'",":"," ",
      "{","'","t","y","p","e","'",":"," ","'","s","e","m","a","n","t","i","c","_","t","e","x","t","'",","," ",
      "'","i","n","f","e","r","e","n","c","e","_","i","d","'",":"," ",
      "'",".","e","l","s","e","r","-","2","-","e","l","a","s","t","i","c","s","e","a","r","c","h","'","}","}",","," ",
      "'","_","m","e","t","a","'",":"," ","{","'","k","n","o","w","l","e","d","g","e","_","b","a","s","e","'",":"," ",
      "{","'","n","a","m","e","'",":"," ","'">>
    \o Chars(proto.name)
    \o <<"'",","," ","'","d","a","t","a","_","s","o","u","r","c","e","'",":"," ","'">>
    \o Chars(proto.data_source)
    \o <<"'",","," ","'","d","e","s","c","r","i","p","t","i","o","n","'",":"," ","'">>
    \o Chars(proto.description)
    \o <<"'",","," ","'","t","y","p","e","'",":"," ","'">>
    \o Chars(proto.type)
    \o <<"'","}","}",","," ","'","r","u","n","t","i","m","e","'",":"," ","{","e","m","i","t","(","'">>
    \o Chars(proto.name)
    \o <<"'",")","}","}">>

\* f"creating knowledge base index '{index_name}' and mappings {index_mappings}"
op_create(index_name, proto) ==
    <<"c","r","e","a","t","i","n","g"," ","k","n","o","w","l","e","d","g","e"," ",
      "b","a","s","e"," ","i","n","d","e","x"," ","'">>
    \o index_name
    \o <<"'"," ","a","n","d"," ","m","a","p","p","i","n","g","s"," ">>
    \o mappings_text(proto)

\* f"updating knowledge base metadata for '{index_name}'"
op_update(index_name) ==
    <<"u","p","d","a","t","i","n","g"," ","k","n","o","w","l","e","d","g","e"," ",
      "b","a","s","e"," ","m","e","t","a","d","a","t","a"," ","f","o","r"," ","'">>
    \o index_name \o <<"'">>

\* f"deleting knowledge base '{knowledge_base.backend_id}'"
op_delete(index_name) ==
    <<"d","e","l","e","t","i","n","g"," ","k","n","o","w","l","e","d","g","e"," ",
      "b","a","s","e"," ","'">>
    \o index_name \o <<"'">>

\* "multi-search operation"
op_search == <<"m","u","l","t","i","-","s","e","a","r","c","h"," ","o","p","e","r","a","t","i","o","n">>

\* f"'{knowledge_base.name} ({index_name})'"
quoted_kb(name, index_name) ==
    <<"'">> \o Chars(name) \o <<" ","(">> \o index_name \o <<")","'">>

\* f"inserting documents into knowledge base '{knowledge_base.name} ({index_name})'"
op_insert(name, index_name) ==
    <<"i","n","s","e","r","t","i","n","g"," ","d","o","c","u","m","e","n","t","s"," ",
      "i","n","t","o"," ","k","n","o","w","l","e","d","g","e"," ","b","a","s","e"," ">>
    \o quoted_kb(name, index_name)

\* f"updating document {document_id} in knowledge base '{knowledge_base.name} ({index_name})'"
op_update_document(document_id, name, index_name) ==
    <<"u","p","d","a","t","i","n","g"," ","d","o","c","u","m","e","n","t"," ">>
    \o Chars(document_id)
    \o <<" ","i","n"," ","k","n","o","w","l","e","d","g","e"," ","b","a","s","e"," ">>
    \o quoted_kb(name, index_name)

\* f"deleting document {document_id} from knowledge base '{knowledge_base.name} ({index_name})'"
op_delete_document(document_id, name, index_name) ==
    <<"d","e","l","e","t","i","n","g"," ","d","o","c","u","m","e","n","t"," ">>
    \o Chars(document_id)
    \o <<" ","f","r","o","m"," ","k","n","o","w","l","e","d","g","e"," ","b","a","s","e"," ">>
    \o quoted_kb(name, index_name)

(***************************************************************************)
(* ElasticsearchKnowledgeBaseClient: knowledge bases.                      *)
(***************************************************************************)
\* settings.base_index_prefix
index_prefix == "kbmcp"

\* create: f"{id_prefix}.{id_middle}-{id_suffix}"
index_name_of(proto, suffix) ==
    Chars(index_prefix) \o <<"-">> \o Chars(proto.type) \o <<".">>
    \o url_to_index_name(Chars(proto.data_source)) \o <<"-">> \o Chars(suffix)

\* get(): one KnowledgeBase per index, from its _meta.knowledge_base block
current_kbs(idx) ==
    { [name |-> idx[i].name, type |-> idx[i].type, description |-> idx[i].description,
       data_source |-> idx[i].data_source, backend_id |-> i] : i \in DOMAIN idx }

\* A faulty name check: it looks for the name among the index names.
name_exists_by_backend_id(kbs, name) == \E kb \in kbs : kb.backend_id = name

\* create: any(kb.name == proto.name for kb in current_kbs)
name_exists(kbs, name) == \E kb \in kbs : kb.name = name

\* get_by_name: [kb for kb in kbs if kb.name == name]
matching_by_name(kbs, name) == {kb \in kbs : kb.name = name}

\* KnowledgeBaseClient._verify_just_one
verify_just_one(matching) ==
    IF matching = {} THEN [error |-> "KnowledgeBaseNotFoundError"]
    ELSE IF Cardinality(matching) > 1 THEN [error |-> "KnowledgeBaseNonUniqueError"]
    ELSE [error |-> "none", kb |-> CHOOSE kb \in matching : TRUE]

\* _insert_metadata: the _meta.knowledge_base block of a proto, written over
\* the one the index has; the documents of the index stay
insert_metadata(index, proto) ==
    [name |-> proto.name, data_source |-> proto.data_source,
     description |-> proto.description, type |-> proto.type, docs |-> index.docs]

\* A faulty merge: it takes no type from the knowledge base.
merged_proto_without_type(kb, upd) ==
    [name |-> upd.name, type |-> "<Not Set>", data_source |-> kb.data_source,
     description |-> upd.description]

\* KnowledgeBase.to_create_proto, then update's setattr loop over
\* model_fields_set (name and description are both required fields)
merged_proto(kb, upd) ==
    [name |-> upd.name, type |-> kb.type, data_source |-> kb.data_source,
     description |-> upd.description]

\* The backend's answers to indices.create, indices.put_mapping and
\* indices.delete.
NoIndices == [i \in {} |-> 0]

\* an index as indices.create leaves it: no documents
EmptyIndex == [docs |-> {}]

index_put(idx, i, entry) == [j \in DOMAIN idx \cup {i} |-> IF j = i THEN entry ELSE idx[j]]

index_remove(idx, i) == [j \in DOMAIN idx \ {i} |-> idx[j]]

\* indices.create on a name that is taken answers resource_already_exists; the
\* client raises it as one of these, by the HTTP status the backend chose.
IndexExistsErrors == {"ConflictError", "ApiError"}

(***************************************************************************)
(* The values requests carry, and the texts and errors they lead to.  The  *)
(* tables below hold index_name_of and error_handler for every value of    *)
(* the model, computed once.                                               *)
(***************************************************************************)
NoProto == [name |-> "-"]

NoKB == [name |-> "-"]

\* KnowledgeBaseCreateProto values of the create requests
CreateProtos ==
    [name : Names, type : {"docs"}, data_source : {DocsUrl}, description : {"d1"}]

\* KnowledgeBaseUpdateProto values of the update requests
UpdateProtos == [name : Names, description : Descriptions]

\* set_project's KnowledgeBaseCreateProto for a project name
memory_proto(project_name) ==
    [name |-> project_name, type |-> "memory",
     data_source |-> IF project_name = "kb" THEN "Workspace-'kb'" ELSE "Workspace-'Kb'",
     description |-> IF project_name = "kb" THEN "This is the memory knowledge base for kb."
                     ELSE "This is the memory knowledge base for Kb."]

MemoryProtos == {memory_proto(n) : n \in Names}

AllCreateProtos == CreateProtos \cup MemoryProtos

\* ids of the documents of an index
DocumentIds == {"m1"}

\* f, with its value at each argument computed
Tabulated(f) == f @@ <<>>

index_names == Tabulated([p \in AllCreateProtos, s \in Suffixes |-> index_name_of(p, s)])

IndexNames == {index_names[p, s] : p \in AllCreateProtos, s \in Suffixes}

BackendExceptions == {"NotFoundError", "ConflictError"} \cup Faults

get_errors == Tabulated([e \in BackendExceptions |-> error_handler(op_get, e)])

search_errors == Tabulated([e \in BackendExceptions |-> error_handler(op_search, e)])

create_errors ==
    Tabulated([i \in IndexNames, p \in AllCreateProtos, e \in BackendExceptions |->
                 error_handler(op_create(i, p), e)])

update_errors ==
    Tabulated([i \in IndexNames, e \in BackendExceptions |-> error_handler(op_update(i), e)])

delete_errors ==
    Tabulated([i \in IndexNames, e \in BackendExceptions |-> error_handler(op_delete(i), e)])

insert_errors ==
    Tabulated([n \in Names, i \in IndexNames, e \in BackendExceptions |->
                 error_handler(op_insert(n, i), e)])

update_document_errors ==
    Tabulated([d \in DocumentIds, n \in Names, i \in IndexNames, e \in BackendExceptions |->
                 error_handler(op_update_document(d, n, i), e)])

delete_document_errors ==
    Tabulated([d \in DocumentIds, n \in Names, i \in IndexNames, e \in BackendExceptions |->
                 error_handler(op_delete_document(d, n, i), e)])

(***************************************************************************)
(* Manager requests: create, update_by_name, delete_by_name.               *)
(***************************************************************************)
Idle == [pc |-> "idle", name |-> "-", proto |-> NoProto, kb |-> NoKB, index |-> <<>>]

NoCall == [op |-> "-", name |-> "-", result |-> "-", raced |-> FALSE]

\* hist is <<the call before the last, the last call>>
Logged(h, call) == <<h[2], call>>

\* the call of c returns or raises: c is idle again, the outcome is logged.
\* raced: an index of that name was there when indices.create was answered
Finish(c, op, name, result, raced) ==
    /\ task' = [task EXCEPT ![c] = Idle]
    /\ hist' = Logged(hist, [op |-> op, name |-> name, result |-> result, raced |-> raced])

\* create, its listing and name check: the error raised there, or "none"
create_check(idx, p, fault) ==
    IF fault # "none" THEN get_errors[fault]
    ELSE IF name_exists(current_kbs(idx), p.name) THEN "KnowledgeBaseAlreadyExistsError"
    ELSE "none"

\* create, its indices.create request for index i: the errors it can raise
\* ("none" when the index is created)
create_answers(idx, i, p, fault) ==
    IF i \in DOMAIN idx THEN {create_errors[i, p, exc] : exc \in IndexExistsErrors}
    ELSE IF fault # "none" THEN {create_errors[i, p, fault]}
    ELSE {"none"}

\* create, up to the answer of `await self.get()`
create_get(c, p, fault) ==
    /\ task[c].pc = "idle"
    /\ UNCHANGED <<bulkVars, learnVars, remVars, callVars>>
    /\ UNCHANGED indices
    /\ IF create_check(indices, p, fault) # "none"
       THEN Finish(c, "create", p.name, create_check(indices, p, fault), FALSE)
       ELSE \E suffix \in Suffixes :
              /\ task' = [task EXCEPT ![c] =
                            [Idle EXCEPT !.pc = "create_put", !.name = p.name,
                                         !.proto = p, !.index = index_names[p, suffix]]]
              /\ UNCHANGED hist

\* create, from the answer of indices.create to its return
create_put(c, fault) ==
    /\ task[c].pc = "create_put"
    /\ UNCHANGED <<bulkVars, learnVars, remVars, callVars>>
    /\ LET t == task[c]
           raced == \E i \in DOMAIN indices : indices[i].name = t.name
       IN  \E error \in create_answers(indices, t.index, t.proto, fault) :
              /\ indices' = IF error = "none"
                            THEN index_put(indices, t.index, insert_metadata(EmptyIndex, t.proto))
                            ELSE indices
              /\ Finish(c, "create", t.name, IF error = "none" THEN "ok" ELSE error, raced)

\* update_by_name, up to the answer of get_by_name's `await self.get()`
update_by_name_get(c, name, upd, fault) ==
    /\ task[c].pc = "idle"
    /\ UNCHANGED <<bulkVars, learnVars, remVars, callVars>>
    /\ UNCHANGED indices
    /\ LET found == verify_just_one(matching_by_name(current_kbs(indices), name))
       IN  IF fault # "none"
           THEN Finish(c, "update", name, get_errors[fault], FALSE)
           ELSE IF found.error # "none"
           THEN Finish(c, "update", name, found.error, FALSE)
           ELSE /\ task' = [task EXCEPT ![c] =
                              [Idle EXCEPT !.pc = "update_put", !.name = name, !.kb = found.kb,
                                           !.proto = merged_proto(found.kb, upd)]]
                /\ UNCHANGED hist

\* update, from the answer of indices.put_mapping to its return
update_put(c, fault) ==
    /\ task[c].pc = "update_put"
    /\ UNCHANGED <<bulkVars, learnVars, remVars, callVars>>
    /\ LET t == task[c]
           i == t.kb.backend_id
       IN  IF i \notin DOMAIN indices
           THEN /\ Finish(c, "update", t.name, update_errors[i, "NotFoundError"], FALSE)
                /\ UNCHANGED indices
           ELSE IF fault # "none"
           THEN /\ Finish(c, "update", t.name, update_errors[i, fault], FALSE)
                /\ UNCHANGED indices
           ELSE /\ indices' = index_put(indices, i, insert_metadata(indices[i], t.proto))
                /\ Finish(c, "update", t.name, "ok", FALSE)

\* delete_by_name, up to the answer of get_by_name's `await self.get()`
delete_by_name_get(c, name, fault) ==
    /\ task[c].pc = "idle"
    /\ UNCHANGED <<bulkVars, learnVars, remVars, callVars>>
    /\ UNCHANGED indices
    /\ LET found == verify_just_one(matching_by_name(current_kbs(indices), name))
       IN  IF fault # "none"
           THEN Finish(c, "delete", name, get_errors[fault], FALSE)
           ELSE IF found.error # "none"
           THEN Finish(c, "delete", name, found.error, FALSE)
           ELSE /\ task' = [task EXCEPT ![c] =
                              [Idle EXCEPT !.pc = "delete_put", !.name = name, !.kb = found.kb]]
                /\ UNCHANGED hist

\* delete, from the answer of indices.delete to its return
delete_put(c, fault) ==
    /\ task[c].pc = "delete_put"
    /\ UNCHANGED <<bulkVars, learnVars, remVars, callVars>>
    /\ LET t == task[c]
           i == t.kb.backend_id
       IN  IF i \notin DOMAIN indices
           THEN /\ Finish(c, "delete", t.name, delete_errors[i, "NotFoundError"], FALSE)
                /\ UNCHANGED indices
           ELSE IF fault # "none"
           THEN /\ Finish(c, "delete", t.name, delete_errors[i, fault], FALSE)
                /\ UNCHANGED indices
           ELSE /\ indices' = index_remove(indices, i)
                /\ Finish(c, "delete", t.name, "ok", FALSE)

Outcomes == {"none"} \cup Faults

\* no request of another caller is in flight
Alone(c) == \A o \in Callers \ {c} : task[o].pc = "idle"

(***************************************************************************)
(* BulkToolCaller: call_tools_bulk and call_tool_bulk.  The tools called    *)
(* here are the knowledge base client's delete_by_name and get_by_name;    *)
(* a tool that raises gives a result with isError set.                     *)
(***************************************************************************)
MaxCalls == 3

Tools == {"delete_by_name", "get_by_name"}

Arguments == [name : Names]

\* CallToolRequest
Requests == [tool : Tools, arguments : Arguments]

SeqsUpTo(S, n) == UNION {[1..k -> S] : k \in 0..n}

\* the backend holding one knowledge base for each of these names
backend_with(names) ==
    LET proto(n) == CHOOSE p \in CreateProtos : p.name = n
        suffix(n) == IF n = "kb" THEN "0a1b2c3d" ELSE "4e5f6a7b"
        at(i) == CHOOSE n \in names : index_names[proto(n), suffix(n)] = i
    IN  [i \in {index_names[proto(n), suffix(n)] : n \in names} |->
            insert_metadata(EmptyIndex, proto(at(i)))]

\* What the called tool does, from its request to its return: the error it
\* raises ("none" when it returns) and the backend it leaves.
tool_run(idx, request, fault) ==
    LET found == verify_just_one(matching_by_name(current_kbs(idx), request.arguments.name))
    IN  IF fault # "none" THEN [error |-> get_errors[fault], indices |-> idx]
        ELSE IF found.error # "none" THEN [error |-> found.error, indices |-> idx]
        ELSE IF request.tool = "delete_by_name"
        THEN [error |-> "none", indices |-> index_remove(idx, found.kb.backend_id)]
        ELSE [error |-> "none", indices |-> idx]

\* _call_tool: CallToolRequestResult(tool=tool, arguments=arguments,
\*                                   isError=result.isError, content=result.content)
CallToolRequestResult(tool, arguments, raw) ==
    [tool |-> tool, arguments |-> arguments, isError |-> raw.error # "none",
     content |-> raw.error]

\* A faulty loop exit: it leaves the loop when continue_on_error is set.
halts_when_continuing(result, continue_on_error) == result.isError /\ continue_on_error

\* A faulty loop exit: it leaves the loop at any error.
halts_on_any_error(result, continue_on_error) == result.isError

\* `if result.isError and not continue_on_error: return results`
halts(result, continue_on_error) == result.isError /\ ~continue_on_error

BulkIdle ==
    [pc |-> "idle", entry |-> "-", requests |-> <<>>, continue_on_error |-> TRUE,
     results |-> <<>>, invoked |-> <<>>, before |-> NoIndices, returned |-> <<>>]

\* a bulk call as it begins: results = [], and the loop is entered, or left at
\* once when there is nothing to call
bulk_started(entry, requests, continue_on_error) ==
    [BulkIdle EXCEPT !.pc = IF requests = <<>> THEN "returned" ELSE "loop",
                     !.entry = entry, !.requests = requests,
                     !.continue_on_error = continue_on_error, !.before = indices]

call_tools_bulk(tool_calls, continue_on_error) ==
    /\ bulk.pc \in {"idle", "returned"}
    /\ bulk' = bulk_started("call_tools_bulk", tool_calls, continue_on_error)
    /\ UNCHANGED <<indices, mgrVars, learnVars, remVars, callVars>>

call_tool_bulk(tool, tool_arguments, continue_on_error) ==
    /\ bulk.pc \in {"idle", "returned"}
    /\ bulk' = bulk_started("call_tool_bulk",
                            [k \in 1..Len(tool_arguments) |->
                               [tool |-> tool, arguments |-> tool_arguments[k]]],
                            continue_on_error)
    /\ UNCHANGED <<indices, mgrVars, learnVars, remVars, callVars>>

\* the loop awaits _call_tool for the next request; invoked lists the requests
\* called so far, by their position in the input
call_tool ==
    /\ bulk.pc = "loop"
    /\ bulk' = [bulk EXCEPT !.pc = "calling",
                            !.invoked = Append(@, Len(bulk.results) + 1)]
    /\ UNCHANGED <<indices, mgrVars, learnVars, remVars, callVars>>

\* the tool returns or raises; the loop appends the result and goes on or returns
call_tool_returns(fault) ==
    /\ bulk.pc = "calling"
    /\ LET request == bulk.requests[Len(bulk.results) + 1]
           raw == tool_run(indices, request, fault)
           result == CallToolRequestResult(request.tool, request.arguments, raw)
           results == Append(bulk.results, result)
       IN  /\ indices' = raw.indices
           /\ IF halts(result, bulk.continue_on_error) \/ Len(results) = Len(bulk.requests)
              THEN bulk' = [bulk EXCEPT !.pc = "returned", !.results = results,
                                        !.returned = results]
              ELSE bulk' = [bulk EXCEPT !.pc = "loop", !.results = results]
    /\ UNCHANGED <<mgrVars, learnVars, remVars, callVars>>

(***************************************************************************)
(* LearnServer.from_web_documentation, Crawler and the Docker helpers.     *)
(***************************************************************************)
\* validate_crawl's default for max_child_page_limit
max_child_page_limit == 500

\* What requests.get and the parse of the seed page give: an exception of
\* requests, or the robots directives and the number of urls to crawl.
NoPage == [raises |-> "-"]

Pages ==
    {[raises |-> "HTTPError"], [raises |-> "ConnectionError"]}
    \cup [raises : {"none"}, page_is_noindex : {TRUE}, page_is_nofollow : BOOLEAN,
          num_urls : {3}]
    \cup [raises : {"none"}, page_is_noindex : {FALSE}, page_is_nofollow : {FALSE},
          num_urls : {max_child_page_limit, max_child_page_limit + 1}]

CrawlerValidationErrors ==
    {"CrawlerValidationHTTPError", "CrawlerValidationNoIndexNofollowError",
     "CrawlerValidationTooManyURLsError"}

\* A validation that counts the urls before it looks at the directives.
validate_crawl_counting_first(page, limit) ==
    IF page.raises = "HTTPError" THEN "CrawlerValidationHTTPError"
    ELSE IF page.raises # "none" THEN page.raises
    ELSE IF page.num_urls > limit THEN "CrawlerValidationTooManyURLsError"
    ELSE IF page.page_is_noindex /\ page.page_is_nofollow
    THEN "CrawlerValidationNoIndexNofollowError"
    ELSE "none"

\* Crawler.validate_crawl: the exception that leaves it, or "none"
validate_crawl_below_the_limit(page, limit) ==
    IF page.raises = "HTTPError" THEN "CrawlerValidationHTTPError"
    ELSE IF page.raises # "none" THEN page.raises
    ELSE IF page.page_is_noindex /\ page.page_is_nofollow
    THEN "CrawlerValidationNoIndexNofollowError"
    ELSE IF page.num_urls >= limit THEN "CrawlerValidationTooManyURLsError"
    ELSE "none"

validate_crawl(page, limit) ==
    IF page.raises = "HTTPError" THEN "CrawlerValidationHTTPError"
    ELSE IF page.raises # "none" THEN page.raises
    ELSE IF page.page_is_noindex /\ page.page_is_nofollow
    THEN "CrawlerValidationNoIndexNofollowError"
    ELSE IF page.num_urls > limit THEN "CrawlerValidationTooManyURLsError"
    ELSE "none"

\* LearnWebDocumentationProto values of the requests
LearnProtos ==
    [name : {"kb"}, data_source : {DocsUrl}, description : {"d1"}, overwrite : BOOLEAN]

\* LearnWebDocumentationProto.to_knowledge_base_create_proto
to_knowledge_base_create_proto(lp) ==
    [name |-> lp.name, type |-> "docs", data_source |-> lp.data_source,
     description |-> lp.description]

\* A faulty test of the overwrite flag: it refuses when overwrite is set.
refuses_when_overwriting(found, overwrite) == found /\ overwrite

\* from_web_documentation: `if target_knowledge_base := ...: if not overwrite:`
refuses_existing(found, overwrite) == found /\ ~overwrite

\* Exceptions the Docker client can raise on any request
DockerFaults == {"DockerError", "Exception"}

DockerOutcomes == {"none"} \cup DockerFaults

\* ids the Docker daemon gives to new containers
ContainerIds == {"c1", "c2"}

\* Crawler.handle_errors: the error raised for an exception of its body
crawler_handle_errors(exc) ==
    IF exc = "DockerError" THEN "CrawlerDockerError" ELSE "CrawlerError"

LearnIdle ==
    [pc |-> "idle", proto |-> NoProto, page |-> NoPage, found |-> FALSE, made_kb |-> FALSE,
     index |-> <<>>, container |-> "-", failed_at |-> "-", result |-> "-", reason |-> "-"]

\* the call of c is over: it returned a CrawlResult or an exception left it
returns(c, state, result, reason) ==
    learn' = [learn EXCEPT ![c] = [state EXCEPT !.pc = "idle", !.result = result,
                                                !.reason = reason]]

\* from_web_documentation is called: it runs, without an await, into the
\* requests.get of extract_urls_from_webpage (validate_crawl is awaited, but
\* nothing in it yields to the event loop before the page is fetched)
from_web_documentation(c, lp) ==
    /\ learn[c].pc = "idle"
    /\ UNCHANGED <<indices, containers, mgrVars, bulkVars, remVars, callVars>>
    /\ learn' = [learn EXCEPT ![c] = [LearnIdle EXCEPT !.pc = "requests.get", !.proto = lp]]

\* requests.get is a blocking call made on the thread of the event loop: no
\* other task runs until it returns
loop_is_held == \E c \in Callers : learn[c].pc = "requests.get"

\* requests.get returns or raises; the rest of validate_crawl follows, up to
\* where from_web_documentation awaits the listing of try_get_by_name
requests_get(c, page) ==
    /\ learn[c].pc = "requests.get"
    /\ UNCHANGED <<indices, containers, mgrVars, bulkVars, remVars, callVars>>
    /\ LET call == [learn[c] EXCEPT !.page = page]
           error == validate_crawl(page, max_child_page_limit)
       IN  IF error = "none"
           THEN learn' = [learn EXCEPT ![c] = [call EXCEPT !.pc = "try_get_by_name"]]
           ELSE IF error \in CrawlerValidationErrors
           THEN returns(c, call, "CrawlStartFailure", error)
           ELSE returns(c, call, "raised", error)

\* try_get_by_name is answered; the overwrite test follows
learn_try_get_by_name(c, fault) ==
    /\ learn[c].pc = "try_get_by_name"
    /\ UNCHANGED <<indices, containers, mgrVars, bulkVars, remVars, callVars>>
    /\ LET t == learn[c]
           one == verify_just_one(matching_by_name(current_kbs(indices), t.proto.name))
           found == one.error = "none"
       IN  IF fault # "none"
           THEN returns(c, t, "raised", get_errors[fault])
           ELSE IF refuses_existing(found, t.proto.overwrite)
           THEN returns(c, [t EXCEPT !.found = found], "CrawlStartFailure", "already exists")
           ELSE IF found
           THEN learn' = [learn EXCEPT ![c] = [t EXCEPT !.pc = "containers.create",
                                                        !.found = TRUE,
                                                        !.index = one.kb.backend_id]]
           ELSE learn' = [learn EXCEPT ![c] = [t EXCEPT !.pc = "create_get"]]

\* the error of create that leaves from_web_documentation, or its
\* CrawlStartFailure for a KnowledgeBaseCreationError
create_failed(c, t, error) ==
    IF error = "KnowledgeBaseCreationError"
    THEN returns(c, t, "CrawlStartFailure", error)
    ELSE returns(c, t, "raised", error)

\* knowledge_base_client.create, up to the answer of its listing
learn_create_get(c, fault) ==
    /\ learn[c].pc = "create_get"
    /\ UNCHANGED <<indices, containers, mgrVars, bulkVars, remVars, callVars>>
    /\ LET t == learn[c]
           p == to_knowledge_base_create_proto(t.proto)
           error == create_check(indices, p, fault)
       IN  IF error # "none"
           THEN create_failed(c, t, error)
           ELSE \E suffix \in Suffixes :
                  learn' = [learn EXCEPT ![c] = [t EXCEPT !.pc = "create_put",
                                                         !.index = index_names[p, suffix]]]

\* knowledge_base_client.create, from the answer of indices.create
learn_create_put(c, fault) ==
    /\ learn[c].pc = "create_put"
    /\ UNCHANGED <<containers, mgrVars, bulkVars, remVars, callVars>>
    /\ LET t == learn[c]
           p == to_knowledge_base_create_proto(t.proto)
       IN  \E error \in create_answers(indices, t.index, p, fault) :
              IF error # "none"
              THEN /\ create_failed(c, t, error)
                   /\ UNCHANGED indices
              ELSE /\ indices' = index_put(indices, t.index, insert_metadata(EmptyIndex, p))
                   /\ learn' = [learn EXCEPT ![c] = [t EXCEPT !.pc = "containers.create",
                                                              !.made_kb = TRUE]]

\* a launch step failed: crawl_domain raises a CrawlerError and
\* from_web_documentation returns CrawlStartFailure
launch_failed(c, t, step, exc) ==
    returns(c, [t EXCEPT !.failed_at = step], "CrawlStartFailure", crawler_handle_errors(exc))

\* crawl_domain and start_container_with_files, up to the answer of
\* docker_client.containers.create
containers_create(c, id, fault) ==
    /\ learn[c].pc = "containers.create"
    /\ id \notin DOMAIN containers
    /\ UNCHANGED <<indices, mgrVars, bulkVars, remVars, callVars>>
    /\ LET t == learn[c]
       IN  IF fault # "none"
           THEN /\ launch_failed(c, t, "containers.create", fault)
                /\ UNCHANGED containers
           ELSE /\ containers' = index_put(containers, id,
                                           [state |-> "created", index |-> t.index,
                                            files |-> {}])
                /\ learn' = [learn EXCEPT ![c] = [t EXCEPT !.pc = "put_archive",
                                                           !.container = id]]

\* A launch that goes on to the start with nothing put into the container.
put_archive_without_the_file(c, fault) ==
    /\ learn[c].pc = "put_archive"
    /\ UNCHANGED <<indices, containers, mgrVars, bulkVars, remVars, callVars>>
    /\ LET t == learn[c]
       IN  IF fault # "none"
           THEN launch_failed(c, t, "put_archive", fault)
           ELSE learn' = [learn EXCEPT ![c] = [t EXCEPT !.pc = "start"]]

\* start_container_with_files, the answer of container.put_archive(path="/")
\* for the one file of files_to_inject, the crawl configuration
put_archive(c, fault) ==
    /\ learn[c].pc = "put_archive"
    /\ UNCHANGED <<indices, mgrVars, bulkVars, remVars, callVars>>
    /\ LET t == learn[c]
       IN  IF fault # "none"
           THEN /\ launch_failed(c, t, "put_archive", fault)
                /\ UNCHANGED containers
           ELSE /\ containers' = [containers EXCEPT ![t.container].files = {"/"}]
                /\ learn' = [learn EXCEPT ![c] = [t EXCEPT !.pc = "start"]]

\* start_container_with_files, the answer of container.start, and the return
\* of CrawlStartSuccess
container_start(c, fault) ==
    /\ learn[c].pc = "start"
    /\ UNCHANGED <<indices, mgrVars, bulkVars, remVars, callVars>>
    /\ LET t == learn[c]
       IN  IF fault # "none"
           THEN /\ launch_failed(c, t, "start", fault)
                /\ UNCHANGED containers
           ELSE /\ containers' = [containers EXCEPT ![t.container].state = "running"]
                /\ returns(c, t, "CrawlStartSuccess", "-")

(***************************************************************************)
(* MemoryServer (the Remember tools) and the context of root_lifespan.     *)
(***************************************************************************)
\* MemoryContext(project_name=None, knowledge_base=None).  root_lifespan yields
\* one RootContext, and every request served under that lifespan reaches it
\* through request_context.lifespan_context.  established is TRUE once a
\* set_project has returned.
EmptyContext == [project_name |-> "None", knowledge_base |-> NoKB, established |-> FALSE]

NoUse == [name |-> "-", backend_id |-> <<>>]

NoRemCall ==
    [caller |-> "-", op |-> "-", result |-> "-", used |-> NoUse, touched |-> FALSE,
     mine |-> NoKB]

\* mine: the knowledge base the caller's last set_project put in the context
RemIdle ==
    [pc |-> "idle", project_name |-> "-", return_memories |-> FALSE,
     index |-> <<>>, kb |-> NoKB, mine |-> NoKB]

\* the KnowledgeBase create returns
created_kb(p, i) ==
    [name |-> p.name, type |-> p.type, description |-> p.description,
     data_source |-> p.data_source, backend_id |-> i]

\* the call of c is over; touched: it made a backend request; used: the
\* project name or knowledge base it took from the context (for a set_project
\* that returned, the project name it was called with); mine: what the
\* caller's own set_project had put there
rem_returns(c, t, op, result, used, touched) ==
    /\ rem' = [rem EXCEPT ![c] = [RemIdle EXCEPT !.mine = t.mine]]
    /\ rlast' = [caller |-> c, op |-> op, result |-> result, used |-> used,
                 touched |-> touched, mine |-> t.mine]

\* the call of c goes on
rem_awaits(c, t) == rem' = [rem EXCEPT ![c] = t] /\ UNCHANGED rlast

\* set_project, up to where it awaits the listing of try_get_by_name
set_project(c, project_name, return_memories) ==
    /\ rem[c].pc = "idle"
    /\ rem_awaits(c, [rem[c] EXCEPT !.pc = "try_get_by_name",
                                    !.project_name = project_name,
                                    !.return_memories = return_memories])
    /\ UNCHANGED <<indices, ctx, mgrVars, bulkVars, learnVars, callVars>>

\* set_project with its knowledge base at hand: the context is written, then
\* the memories are awaited or the response returned
set_in_context(c, t, kb) ==
    /\ ctx' = [project_name |-> t.project_name, knowledge_base |-> kb,
               established |-> ctx.established \/ ~t.return_memories]
    /\ IF t.return_memories
       THEN rem_awaits(c, [t EXCEPT !.pc = "get_recent_documents", !.kb = kb, !.mine = kb])
       ELSE rem_returns(c, [t EXCEPT !.mine = kb], "set_project", "ok",
                        [name |-> t.project_name, backend_id |-> <<>>], TRUE)

\* set_project, the answer of try_get_by_name
rem_try_get_by_name(c, fault) ==
    /\ rem[c].pc = "try_get_by_name"
    /\ UNCHANGED <<indices, mgrVars, bulkVars, learnVars, callVars>>
    /\ LET t == rem[c]
           one == verify_just_one(matching_by_name(current_kbs(indices), t.project_name))
       IN  IF fault # "none"
           THEN /\ rem_returns(c, t, "set_project", get_errors[fault], NoUse, TRUE)
                /\ UNCHANGED ctx
           ELSE IF one.error = "none"
           THEN set_in_context(c, t, one.kb)
           ELSE /\ rem_awaits(c, [t EXCEPT !.pc = "create_get"])
                /\ UNCHANGED ctx

\* set_project, create up to the answer of its listing
rem_create_get(c, fault) ==
    /\ rem[c].pc = "create_get"
    /\ UNCHANGED <<indices, ctx, mgrVars, bulkVars, learnVars, callVars>>
    /\ LET t == rem[c]
           p == memory_proto(t.project_name)
           error == create_check(indices, p, fault)
       IN  IF error # "none"
           THEN rem_returns(c, t, "set_project", error, NoUse, TRUE)
           ELSE \E suffix \in Suffixes :
                  rem_awaits(c, [t EXCEPT !.pc = "create_put", !.index = index_names[p, suffix]])

\* set_project, create from the answer of indices.create
rem_create_put(c, fault) ==
    /\ rem[c].pc = "create_put"
    /\ UNCHANGED <<mgrVars, bulkVars, learnVars, callVars>>
    /\ LET t == rem[c]
           p == memory_proto(t.project_name)
       IN  \E error \in create_answers(indices, t.index, p, fault) :
              IF error # "none"
              THEN /\ rem_returns(c, t, "set_project", error, NoUse, TRUE)
                   /\ UNCHANGED <<indices, ctx>>
              ELSE /\ indices' = index_put(indices, t.index, insert_metadata(EmptyIndex, p))
                   /\ set_in_context(c, t, created_kb(p, t.index))

\* get_recent_documents: the error of its search request, or "none"
get_recent_documents(idx, kb, fault) ==
    IF kb.backend_id \notin DOMAIN idx THEN search_errors["NotFoundError"]
    ELSE IF fault # "none" THEN search_errors[fault]
    ELSE "none"

\* set_project, the answer of get_recent_documents and the response
rem_get_recent_documents(c, fault) ==
    /\ rem[c].pc = "get_recent_documents"
    /\ UNCHANGED <<indices, mgrVars, bulkVars, learnVars, callVars>>
    /\ LET t == rem[c]
           error == get_recent_documents(indices, t.kb, fault)
       IN  IF error # "none"
           THEN /\ rem_returns(c, t, "set_project", error, NoUse, TRUE)
                /\ UNCHANGED ctx
           ELSE /\ ctx' = [ctx EXCEPT !.established = TRUE]
                /\ rem_returns(c, t, "set_project", "ok",
                               [name |-> t.project_name, backend_id |-> <<>>], TRUE)

\* what a tool takes from the context
used_kb(kb) == [name |-> kb.name, backend_id |-> kb.backend_id]

\* a tool that finds no knowledge base in the context: get_kb_from_context
\* raises ValueError before any request is made
no_kb_in_context(c, op) ==
    /\ rem_returns(c, rem[c], op, "ValueError", NoUse, FALSE)
    /\ UNCHANGED indices

get_project_name(c) ==
    /\ rem[c].pc = "idle"
    /\ UNCHANGED <<indices, ctx, mgrVars, bulkVars, learnVars, callVars>>
    /\ LET project_name == ctx.project_name
       IN  IF project_name # "None"
           THEN rem_returns(c, rem[c], "get_project_name", "ok",
                            [name |-> project_name, backend_id |-> <<>>], FALSE)
           ELSE rem_returns(c, rem[c], "get_project_name", "ValueError", NoUse, FALSE)

\* encodings with `new`, the ids the backend gives the documents of the memories
encodings_of(c, op, new, fault) ==
    /\ rem[c].pc = "idle"
    /\ UNCHANGED <<ctx, mgrVars, bulkVars, learnVars, callVars>>
    /\ LET kb == ctx.knowledge_base
           i == kb.backend_id
       IN  IF kb = NoKB THEN no_kb_in_context(c, op)
           ELSE IF new = {}
           THEN /\ rem_returns(c, rem[c], op, "ok", used_kb(kb), FALSE)
                /\ UNCHANGED indices
           ELSE IF fault # "none"
           THEN /\ rem_returns(c, rem[c], op, insert_errors[kb.name, i, fault], used_kb(kb), TRUE)
                /\ UNCHANGED indices
           ELSE IF i \notin DOMAIN indices \/ new \cap indices[i].docs # {}
           THEN /\ rem_returns(c, rem[c], op, "KnowledgeBaseError", used_kb(kb), TRUE)
                /\ UNCHANGED indices
           ELSE /\ indices' = [indices EXCEPT ![i].docs = @ \cup new]
                /\ rem_returns(c, rem[c], op, "ok", used_kb(kb), TRUE)

encodings(c, new, fault) == encodings_of(c, "encodings", new, fault)

encoding(c, id, fault) == encodings_of(c, "encoding", {id}, fault)

recall(c, fault) ==
    /\ rem[c].pc = "idle"
    /\ UNCHANGED <<ctx, mgrVars, bulkVars, learnVars, callVars>>
    /\ LET kb == ctx.knowledge_base
       IN  IF kb = NoKB THEN no_kb_in_context(c, "recall")
           ELSE /\ rem_returns(c, rem[c], "recall",
                               IF fault # "none" THEN search_errors[fault] ELSE "ok",
                               used_kb(kb), TRUE)
                /\ UNCHANGED indices

recall_last(c, fault) ==
    /\ rem[c].pc = "idle"
    /\ UNCHANGED <<ctx, mgrVars, bulkVars, learnVars, callVars>>
    /\ LET kb == ctx.knowledge_base
           error == get_recent_documents(indices, kb, fault)
       IN  IF kb = NoKB THEN no_kb_in_context(c, "recall_last")
           ELSE /\ rem_returns(c, rem[c], "recall_last",
                               IF error # "none" THEN error ELSE "ok", used_kb(kb), TRUE)
                /\ UNCHANGED indices

\* the document is in the index of the knowledge base
has_document(idx, kb, document_id) ==
    kb.backend_id \in DOMAIN idx /\ document_id \in idx[kb.backend_id].docs

update_encoding(c, document_id, fault) ==
    /\ rem[c].pc = "idle"
    /\ UNCHANGED <<ctx, mgrVars, bulkVars, learnVars, callVars>>
    /\ LET kb == ctx.knowledge_base
           errors == update_document_errors
           i == kb.backend_id
       IN  IF kb = NoKB THEN no_kb_in_context(c, "update_encoding")
           ELSE /\ rem_returns(c, rem[c], "update_encoding",
                               IF ~has_document(indices, kb, document_id)
                               THEN errors[document_id, kb.name, i, "NotFoundError"]
                               ELSE IF fault # "none"
                               THEN errors[document_id, kb.name, i, fault]
                               ELSE "ok",
                               used_kb(kb), TRUE)
                /\ UNCHANGED indices

delete_encoding(c, document_id, fault) ==
    /\ rem[c].pc = "idle"
    /\ UNCHANGED <<ctx, mgrVars, bulkVars, learnVars, callVars>>
    /\ LET kb == ctx.knowledge_base
           errors == delete_document_errors
           i == kb.backend_id
       IN  IF kb = NoKB THEN no_kb_in_context(c, "delete_encoding")
           ELSE IF ~has_document(indices, kb, document_id)
           THEN /\ rem_returns(c, rem[c], "delete_encoding",
                               errors[document_id, kb.name, i, "NotFoundError"], used_kb(kb), TRUE)
                /\ UNCHANGED indices
           ELSE IF fault # "none"
           THEN /\ rem_returns(c, rem[c], "delete_encoding",
                               errors[document_id, kb.name, i, fault], used_kb(kb), TRUE)
                /\ UNCHANGED indices
           ELSE /\ indices' = [indices EXCEPT ![i].docs = @ \ {document_id}]
                /\ rem_returns(c, rem[c], "delete_encoding", "ok", used_kb(kb), TRUE)

(***************************************************************************)
(* Client calls looked at on their own: client_call holds the arguments of *)
(* one call, then what came of it.                                         *)
(***************************************************************************)
\* Characters of the names tried: a letter, the two quotes and the backslash.
NameChars == {"k", "'", "\"", "\\"}

MaxNameLen == 3

\* _insert_runtime_kb_name: the source of the runtime field's script,
\* f"emit('{escaped_value}')" with escaped_value = kb_name.replace('"', '\\"')
runtime_script(kb_name) ==
    <<"e","m","i","t","(","'">> \o replace(kb_name, <<"\"">>, <<"\\","\"">>) \o <<"'",")">>

\* The single-quoted string literal of the script language, read from the
\* character after its opening quote: a backslash stands before a quote or a
\* backslash and nowhere else, and the first bare quote ends the literal.
RECURSIVE string_literal(_)
string_literal(text) ==
    IF text = <<>> THEN [ok |-> FALSE]
    ELSE IF text[1] = "'" THEN [ok |-> TRUE, value |-> <<>>, rest |-> Tail(text)]
    ELSE LET escaped == text[1] = "\\"
             taken == IF escaped THEN 2 ELSE 1
         IN  IF escaped /\ (Len(text) < 2 \/ text[2] \notin {"'", "\\"})
             THEN [ok |-> FALSE]
             ELSE LET more == string_literal(SubSeq(text, taken + 1, Len(text)))
                  IN  IF more.ok THEN [more EXCEPT !.value = <<text[taken]>> \o @]
                      ELSE more

\* What the runtime field knowledge_base_name emits for a script source
\* emit('...'): the value of the literal when the source is that one call, and
\* no script (the backend refuses the mapping) otherwise.
script_emits(source) ==
    LET literal == string_literal(SubSeq(source, 7, Len(source)))
    IN  IF literal.ok /\ literal.rest = <<")">> THEN [ok |-> TRUE, value |-> literal.value]
        ELSE [ok |-> FALSE]

\* update(kb, {name: N2}) on an index, and the knowledge_base_name a later
\* search hit of that index carries (fields.knowledge_base_name[0], which is
\* what the runtime field emits)
update_name ==
    /\ client_call.op = "update" /\ client_call.result = "-"
    /\ LET script == script_emits(runtime_script(client_call.name))
       IN  client_call' =
              IF script.ok
              THEN [client_call EXCEPT !.result = "ok", !.meta_name = client_call.name,
                                       !.hit_name = script.value]
              ELSE [client_call EXCEPT !.result = update_errors[client_call.index, "ApiError"]]
    /\ UNCHANGED <<indices, mgrVars, bulkVars, learnVars, remVars, process>>

\* The request of a client operation is answered with an exception: the error
\* error_handler raises for the operation text of that call.
request_fails ==
    /\ client_call.op = "request_fails" /\ client_call.result = "-"
    /\ LET o == client_call.operation
           i == client_call.index
           p == client_call.proto
           e == client_call.exc
       IN  client_call' =
              [client_call EXCEPT !.result =
                 CASE o = "get" -> get_errors[e]
                   [] o = "create" -> create_errors[i, p, e]
                   [] o = "update" -> update_errors[i, e]
                   [] o = "delete" -> delete_errors[i, e]
                   [] o = "search" -> search_errors[e]
                   [] o = "update_document" -> update_document_errors["m1", p.name, i, e]
                   [] o = "delete_document" -> delete_document_errors["m1", p.name, i, e]]
    /\ UNCHANGED <<indices, mgrVars, bulkVars, learnVars, remVars, process>>

\* Phrases of the batches tried, and the longest batch.
Phrases == {"foo", "bar"}

MaxPhrases == 2

\* What the multi-search answers for one search: an error of that search
\* alone (no "hits" in it), no hit, a hit on a crawled page, a hit on a
\* document stored by insert_documents (which writes @timestamp, title and
\* body, and no url).  url is the hit's fields.url list.
Responses ==
    {[error |-> TRUE, hits |-> <<>>], [error |-> FALSE, hits |-> <<>>],
     [error |-> FALSE, hits |-> <<[knowledge_base_name |-> <<"kb">>, url |-> <<DocsUrl>>]>>],
     [error |-> FALSE, hits |-> <<[knowledge_base_name |-> <<"kb">>, url |-> <<>>]>>]}

\* _hit_to_document: url is next(iter(fields.get("url", [None]))), and
\* KnowledgeBaseDocument declares url: str, so a hit without a url fails the
\* validation of the document.
hit_to_document(hit) ==
    IF hit.url = <<>> THEN [raises |-> "ValidationError", document |-> <<>>]
    ELSE [raises |-> "none",
          document |-> [knowledge_base_name |-> hit.knowledge_base_name[1], url |-> hit.url[1]]]

\* The body of the loop of _search_by_knowledge_base_names: the entry of one
\* response, for the phrase at its position.
search_result_of_any_response(phrase, response) ==
    LET documents == [h \in 1..Len(response.hits) |-> hit_to_document(response.hits[h])]
    IN  IF \E h \in 1..Len(documents) : documents[h].raises # "none"
        THEN [raises |-> "ValidationError", entry |-> <<>>]
        ELSE [raises |-> "none",
              entry |-> [phrase |-> phrase,
                         results |-> [h \in 1..Len(documents) |-> documents[h].document],
                         summaries |-> <<[knowledge_base_name |-> "kb",
                                          matches |-> Len(documents)]>>]]

search_result(phrase, response) ==
    IF response.hits = <<>>
    THEN [raises |-> "none",
          entry |-> [phrase |-> phrase,
                     error |-> "No hits found in one of the search responses."]]
    ELSE LET documents == [h \in 1..Len(response.hits) |-> hit_to_document(response.hits[h])]
         IN  IF \E h \in 1..Len(documents) : documents[h].raises # "none"
             THEN [raises |-> "ValidationError", entry |-> <<>>]
             ELSE [raises |-> "none",
                   entry |-> [phrase |-> phrase,
                              results |-> [h \in 1..Len(documents) |-> documents[h].document],
                              summaries |-> <<[knowledge_base_name |-> "kb",
                                               matches |-> Len(documents)]>>]]

\* _search_by_knowledge_base_names(phrases, knowledge_base_names) against a
\* multi-search that answers with exception exc ("none": it answers), with a
\* body that has "responses" or not, and with one response per search.  The
\* request is sent whatever the number of searches, and Elasticsearch refuses
\* a multi-search without searches (400, an ApiError).
search_outcome(phrases, exc, has_responses, responses) ==
    LET operations == [i \in 1..Len(phrases) |-> phrases[i]]
        raised == IF operations = <<>> THEN "ApiError" ELSE exc
        search_results == [i \in 1..Len(responses) |-> search_result(phrases[i], responses[i])]
    IN  IF raised # "none" THEN [result |-> search_errors[raised], entries |-> <<>>]
        ELSE IF ~has_responses THEN [result |-> "ok", entries |-> <<>>]
        ELSE IF \E i \in 1..Len(search_results) : search_results[i].raises # "none"
             THEN [result |-> "ValidationError", entries |-> <<>>]
             ELSE [result |-> "ok",
                   entries |-> [i \in 1..Len(search_results) |-> search_results[i].entry]]

\* search(phrases) is search_by_name([], phrases); both are
\* _search_by_knowledge_base_names, the names being the filter of the queries.
search_by_name ==
    /\ client_call.op = "search" /\ client_call.result = "-"
    /\ LET outcome == search_outcome(client_call.phrases, client_call.exc,
                                     client_call.has_responses, client_call.responses)
       IN  client_call' = [client_call EXCEPT !.result = outcome.result,
                                              !.entries = outcome.entries]
    /\ UNCHANGED <<indices, mgrVars, bulkVars, learnVars, remVars, process>>

\* Documents of one insert_documents call, at most.
MaxDocuments == 2

\* insert_documents(knowledge_base, documents) against a bulk request that
\* answers with exception exc ("none": it answers) and, item by item, with
\* "created" or "failed" ("errors" of the answer is set when an item failed):
\* the error raised, the positions of the documents now stored, and the
\* number of bulk requests sent.
insert_outcome_without_errors_check(name, index, documents, exc, items) ==
    IF documents = <<>> THEN [result |-> "ok", stored |-> {}, requests |-> 0]
    ELSE IF exc # "none"
    THEN [result |-> insert_errors[name, index, exc], stored |-> {}, requests |-> 1]
    ELSE [result |-> "ok", stored |-> {d \in DOMAIN items : items[d] = "created"},
          requests |-> 1]

insert_outcome(name, index, documents, exc, items) ==
    LET operations == [d \in 1..Len(documents) |-> [index |-> index, body |-> documents[d]]]
        errors == \E d \in DOMAIN items : items[d] = "failed"
    IN  IF operations = <<>> THEN [result |-> "ok", stored |-> {}, requests |-> 0]
        ELSE IF exc # "none"
        THEN [result |-> insert_errors[name, index, exc], stored |-> {}, requests |-> 1]
        ELSE [result |-> IF errors THEN "KnowledgeBaseError" ELSE "ok",
              stored |-> {d \in DOMAIN items : items[d] = "created"}, requests |-> 1]

insert_documents ==
    /\ client_call.op = "insert_documents" /\ client_call.result = "-"
    /\ LET outcome == insert_outcome(client_call.name, client_call.index, client_call.documents,
                                     client_call.exc, client_call.items)
       IN  client_call' = [client_call EXCEPT !.result = outcome.result,
                                              !.stored = outcome.stored,
                                              !.requests = outcome.requests]
    /\ UNCHANGED <<indices, mgrVars, bulkVars, learnVars, remVars, process>>

\* Largest max_child_page_limit of the validate_crawl calls tried.
MaxChildLimit == 2

\* extract_urls_from_webpage on a page that was fetched: links holds, for each
\* <a href> of the page that passes the domain and path filters, its cleaned
\* url and whether its rel holds nofollow.  urls_to_crawl and skipped_urls are
\* sets of urls; num_urls is len(urls_to_crawl), as validate_crawl takes it.
extract_urls_from_webpage(page_is_noindex, page_is_nofollow, links) ==
    LET urls_to_crawl == {l[1] : l \in {k \in links : ~k[2]}}
        skipped_urls == {l[1] : l \in {k \in links : k[2]}}
    IN  [raises |-> "none", page_is_noindex |-> page_is_noindex,
         page_is_nofollow |-> page_is_nofollow, num_urls |-> Cardinality(urls_to_crawl),
         skipped |-> Cardinality(skipped_urls)]

\* validate_crawl(url, max_child_page_limit) on a seed page with these links,
\* or whose fetch raises the HTTPError probe
validate_crawl_of_page ==
    /\ client_call.op = "validate_crawl" /\ client_call.result = "-"
    /\ LET page == IF client_call.probe # "none" THEN [raises |-> client_call.probe]
                   ELSE extract_urls_from_webpage(client_call.page_is_noindex,
                                                  client_call.page_is_nofollow,
                                                  client_call.links)
       IN  client_call' = [client_call EXCEPT
                             !.result = IF validate_crawl(page, client_call.limit) = "none"
                                        THEN "ok"
                                        ELSE validate_crawl(page, client_call.limit)]
    /\ UNCHANGED <<indices, mgrVars, bulkVars, learnVars, remVars, process>>

\* Containers of one listing, at most.
MaxContainers == 3

\* Crawler.remove_completed_crawls against a listing of the managed
\* containers (states, in the order listed) when the removal of the
\* containers at the positions fails is answered with a DockerError: the
\* comprehension removes the exited ones in order inside one handle_errors, so
\* the first removal that fails ends the call.
remove_completed_crawls ==
    /\ client_call.op = "remove_completed_crawls" /\ client_call.result = "-"
    /\ LET crawler_containers == client_call.states
           completed_crawls == {p \in DOMAIN crawler_containers :
                                  crawler_containers[p] = "exited"}
           failed == completed_crawls \cap client_call.fails
           first_failed == CHOOSE p \in failed : \A q \in failed : p <= q
       IN  client_call' =
              IF failed # {}
              THEN [client_call EXCEPT !.result = crawler_handle_errors("DockerError"),
                                       !.gone = {p \in completed_crawls : p < first_failed}]
              ELSE [client_call EXCEPT !.result = "ok", !.gone = completed_crawls,
                                       !.removed = Cardinality(completed_crawls),
                                       !.total = Len(crawler_containers)]
    /\ UNCHANGED <<indices, mgrVars, bulkVars, learnVars, remVars, process>>

\* Indices of one listing, at most.
MaxListed == 3

\* The place of a one-letter name in the order of sorted(..., key=lambda kb:
\* kb.name.lower()): that of its lower-cased letter.
name_order(name) == CHOOSE i \in 1..26 : LowerLetters[i] = lower_char(name)

\* A sort by the names as they are written: every capital comes before every
\* small letter.
sorted_as_written(kbs) ==
    LET written(i) == IF lower_char(kbs[i].name) = kbs[i].name
                      THEN 26 + name_order(kbs[i].name) ELSE name_order(kbs[i].name)
        place(i) == 1 + Cardinality({j \in DOMAIN kbs :
                                       \/ written(j) < written(i)
                                       \/ written(j) = written(i) /\ j < i})
    IN  [p \in 1..Len(kbs) |-> kbs[CHOOSE i \in DOMAIN kbs : place(i) = p]]

\* sorted(knowledge_bases, key=lambda kb: kb.name.lower()): a stable sort, so
\* an element comes after the ones of a smaller key and after the ones of its
\* own key that stood before it
sorted_by_name(kbs) ==
    LET key(i) == name_order(kbs[i].name)
        place(i) == 1 + Cardinality({j \in DOMAIN kbs :
                                       \/ key(j) < key(i)
                                       \/ key(j) = key(i) /\ j < i})
    IN  [p \in 1..Len(kbs) |-> kbs[CHOOSE i \in DOMAIN kbs : place(i) = p]]

\* get(), the listing: held is what the backend holds, index by index in the
\* order of its answers; get_mapping(index=index_pattern) answers with the
\* indices whose name matches <prefix>-*, or with exception exc, and the
\* listing has one KnowledgeBase for each key of that answer.
get ==
    /\ client_call.op = "get" /\ client_call.result = "-"
    /\ LET matches(i) == startswith(i.backend_id, Chars(index_prefix) \o <<"-">>)
           body == SelectSeq(client_call.held, matches)
       IN  client_call' =
              IF client_call.exc # "none"
              THEN [client_call EXCEPT !.result = get_errors[client_call.exc]]
              ELSE [client_call EXCEPT !.result = "ok", !.listing = sorted_by_name(body)]
    /\ UNCHANGED <<indices, mgrVars, bulkVars, learnVars, remVars, process>>

\* Longest path of the urls tried, its leading / counted.
MaxPathLen == 4

\* urllib.parse.urlparse of a url that has a scheme: the scheme is what stands
\* before ://, the netloc goes up to the first /, ? or #, the path up to the
\* first ? or #.
urlparse(url) ==
    LET first(chars, from) ==
           IF \E i \in from..Len(url) : url[i] \in chars
           THEN CHOOSE i \in from..Len(url) :
                   url[i] \in chars /\ \A j \in from..(i - 1) : url[j] \notin chars
           ELSE Len(url) + 1
        colon == first({":"}, 1)
        netloc_end == first({"/", "?", "#"}, colon + 3)
        path_end == first({"?", "#"}, netloc_end)
    IN  [scheme |-> SubSeq(url, 1, colon - 1),
         netloc |-> SubSeq(url, colon + 3, netloc_end - 1),
         path |-> SubSeq(url, netloc_end, path_end - 1)]

\* The parameters of a crawl that starts with everything under the path, file
\* or not.
derive_crawl_params_of_the_path(url) ==
    LET parsed == urlparse(url)
    IN  [seed_url |-> url, domain |-> parsed.scheme \o <<":", "/", "/">> \o parsed.netloc,
         filter_pattern |-> parsed.path]

\* Crawler.derive_crawl_params
derive_crawl_params(url) ==
    LET parsed == urlparse(url)
        path == parsed.path
        rfind == IF \E i \in DOMAIN path : path[i] = "/"
                 THEN CHOOSE i \in DOMAIN path :
                         path[i] = "/" /\ \A j \in (i + 1)..Len(path) : path[j] # "/"
                 ELSE 0
        last == SubSeq(path, rfind + 1, Len(path))
        cut == SubSeq(path, 1, rfind)
    IN  [seed_url |-> url, domain |-> parsed.scheme \o <<":", "/", "/">> \o parsed.netloc,
         filter_pattern |->
            IF ~(path # <<>> /\ path[Len(path)] = "/") /\ "." \in Range(last)
            THEN IF cut # <<>> THEN cut ELSE <<"/">>
            ELSE path]

\* derive_crawl_params(url) for the url written from its parts
derive_params ==
    /\ client_call.op = "derive_crawl_params" /\ client_call.result = "-"
    /\ client_call' = [client_call EXCEPT !.result = "ok",
                                          !.params = derive_crawl_params(client_call.url)]
    /\ UNCHANGED <<indices, mgrVars, bulkVars, learnVars, remVars, process>>

\* Longest end, after the run of one character, of the data sources tried.
MaxTailLen == 2

\* create, lines 284-288: the index name for a type and a data source, with
\* the eight characters of the uuid drawn
create_index_name ==
    /\ client_call.op = "create_index_name" /\ client_call.result = "-"
    /\ LET id_prefix == Chars(index_prefix) \o <<"-">> \o Chars(client_call.type)
           id_middle == url_to_index_name(client_call.data_source)
           id_suffix == Chars(client_call.suffix)
       IN  client_call' = [client_call EXCEPT
                             !.result = "ok", !.id_middle = id_middle,
                             !.index_name = id_prefix \o <<".">> \o id_middle \o <<"-">>
                                            \o id_suffix]
    /\ UNCHANGED <<indices, mgrVars, bulkVars, learnVars, remVars, process>>

\* ---------------------------------------------------------------------
\* server.py: main().  The process pings the backend, builds the knowledge
\* base client inside connection_context_manager, sets the servers up on
\* the root FastMCP server and serves until the transport ends.
\* ---------------------------------------------------------------------

\* the most tool calls followed while the process serves
MaxToolCalls == 3

\* the servers main() mounts on root_mcp, each holding knowledge_base_client
Servers == {"manage", "memory", "ask", "learn"}

\* connection is what elasticsearch_client is: "open" from AsyncElasticsearch(...)
\* until close() has been awaited on it.  client is the connection held by
\* knowledge_base_client, the same object.  called lists the tool calls
\* served, each with the state the connection had when the tool ran.
NotStarted ==
    [pc |-> "-", ping |-> TRUE, transport |-> "stdio", connection |-> "open",
     client |-> "None", servers |-> {}, called |-> <<>>]

\* elasticsearch_client.options(request_timeout=5).ping(); a ping that fails
\* raises ConfigurationError out of main()
main_ping ==
    /\ process.pc = "main"
    /\ process' = [process EXCEPT
                     !.pc = IF process.ping THEN "connection_context_manager"
                            ELSE "ConfigurationError"]
    /\ UNCHANGED <<indices, mgrVars, bulkVars, learnVars, remVars, client_call>>

\* async with connection_context_manager(elasticsearch_client): the body
\* builds knowledge_base_client around the yielded client, and leaving the
\* block runs the finally clause, which awaits elasticsearch_client.close()
connection_context_manager ==
    /\ process.pc = "connection_context_manager"
    /\ process' = [process EXCEPT
                     !.pc = "setup", !.client = "elasticsearch_client",
                     !.connection = "closed"]
    /\ UNCHANGED <<indices, mgrVars, bulkVars, learnVars, remVars, client_call>>

\* setup_manage_server, setup_memory_server, setup_ask_server,
\* setup_learn_server, BulkToolCaller().register_tools
setup_servers ==
    /\ process.pc = "setup"
    /\ process' = [process EXCEPT !.pc = "run_async", !.servers = Servers]
    /\ UNCHANGED <<indices, mgrVars, bulkVars, learnVars, remVars, client_call>>

\* await root_mcp.run_async(transport=...): tools can be called from here on
run_async ==
    /\ process.pc = "run_async"
    /\ process' = [process EXCEPT !.pc = "serving"]
    /\ UNCHANGED <<indices, mgrVars, bulkVars, learnVars, remVars, client_call>>

\* a tool of one of the mounted servers is called; it works on the
\* connection knowledge_base_client holds
serve_tool(server) ==
    /\ process.pc = "serving" /\ server \in process.servers
    /\ Len(process.called) < MaxToolCalls
    /\ process' = [process EXCEPT
                     !.called = Append(@, [server |-> server,
                                           connection |-> process.connection])]
    /\ UNCHANGED <<indices, mgrVars, bulkVars, learnVars, remVars, client_call>>

\* the transport ends and run_async returns
stop_serving ==
    /\ process.pc = "serving"
    /\ process' = [process EXCEPT !.pc = "stopped"]
    /\ UNCHANGED <<indices, mgrVars, bulkVars, learnVars, remVars, client_call>>

InitKB ==
    /\ indices = NoIndices
    /\ task = [c \in Callers |-> Idle]
    /\ hist = <<NoCall, NoCall>>
    /\ process = NotStarted
    /\ bulk = BulkIdle
    /\ learn = [c \in Callers |-> LearnIdle]
    /\ containers = NoIndices
    /\ ctx = EmptyContext
    /\ rem = [c \in Callers |-> RemIdle]
    /\ rlast = NoRemCall
    /\ client_call = NoCall

\* Manager calls made one after the other: a call begins when none is in flight.
NextKB ==
    \E c \in Callers, fault \in Outcomes :
       \/ \E p \in CreateProtos : Alone(c) /\ create_get(c, p, fault)
       \/ create_put(c, fault)
       \/ \E n \in Names, u \in UpdateProtos : Alone(c) /\ update_by_name_get(c, n, u, fault)
       \/ update_put(c, fault)
       \/ \E n \in Names : Alone(c) /\ delete_by_name_get(c, n, fault)
       \/ delete_put(c, fault)

SpecKB == InitKB /\ [][NextKB]_vars

\* Concurrent requests, interleaved at their awaits as the event loop allows.
NextRace ==
    \E c \in Callers, fault \in Outcomes :
       \/ \E p \in CreateProtos : create_get(c, p, fault)
       \/ create_put(c, fault)
       \/ \E n \in Names : delete_by_name_get(c, n, fault)
       \/ delete_put(c, fault)

SpecRace == InitKB /\ [][NextRace]_vars

\* Bulk calls, one after the other, over a backend holding some knowledge bases.
InitBulk ==
    /\ \E names \in SUBSET Names : indices = backend_with(names)
    /\ task = [c \in Callers |-> Idle]
    /\ hist = <<NoCall, NoCall>>
    /\ process = NotStarted
    /\ bulk = BulkIdle
    /\ learn = [c \in Callers |-> LearnIdle]
    /\ containers = NoIndices
    /\ ctx = EmptyContext
    /\ rem = [c \in Callers |-> RemIdle]
    /\ rlast = NoRemCall
    /\ client_call = NoCall

NextBulk ==
    \/ \E tool_calls \in SeqsUpTo(Requests, MaxCalls), continue_on_error \in BOOLEAN :
          call_tools_bulk(tool_calls, continue_on_error)
    \/ \E tool \in Tools, tool_arguments \in SeqsUpTo(Arguments, MaxCalls),
          continue_on_error \in BOOLEAN :
          call_tool_bulk(tool, tool_arguments, continue_on_error)
    \/ call_tool
    \/ \E fault \in Outcomes : call_tool_returns(fault)

SpecBulk == InitBulk /\ [][NextBulk]_vars

\* from_web_documentation requests of two callers, interleaved at their
\* awaits, over a backend that holds the knowledge base or not.
InitLearn ==
    /\ \E names \in SUBSET {"kb"} : indices = backend_with(names)
    /\ task = [c \in Callers |-> Idle]
    /\ hist = <<NoCall, NoCall>>
    /\ process = NotStarted
    /\ bulk = BulkIdle
    /\ learn = [c \in Callers |-> LearnIdle]
    /\ containers = NoIndices
    /\ ctx = EmptyContext
    /\ rem = [c \in Callers |-> RemIdle]
    /\ rlast = NoRemCall
    /\ client_call = NoCall

learn_step(c) ==
    \/ /\ ~loop_is_held
       /\ \/ \E lp \in LearnProtos : from_web_documentation(c, lp)
          \/ \E fault \in Outcomes : learn_try_get_by_name(c, fault)
          \/ \E fault \in Outcomes : learn_create_get(c, fault)
          \/ \E fault \in Outcomes : learn_create_put(c, fault)
          \/ \E id \in ContainerIds, fault \in DockerOutcomes : containers_create(c, id, fault)
          \/ \E fault \in DockerOutcomes : put_archive(c, fault)
          \/ \E fault \in DockerOutcomes : container_start(c, fault)
    \/ \E page \in Pages : requests_get(c, page)

NextLearn == \E c \in Callers : learn_step(c)

SpecLearn == InitLearn /\ [][NextLearn]_vars

\* no set_project of another caller is in flight
Alone_in_set_project(c) == \A o \in Callers \ {c} : rem[o].pc = "idle"

\* Remember requests of two callers served under one lifespan.  The tools
\* interleave with a set_project at its awaits; a set_project begins when no
\* other one is in flight.
InitRemember ==
    /\ indices = NoIndices
    /\ task = [c \in Callers |-> Idle]
    /\ hist = <<NoCall, NoCall>>
    /\ process = NotStarted
    /\ bulk = BulkIdle
    /\ learn = [c \in Callers |-> LearnIdle]
    /\ containers = NoIndices
    /\ ctx = EmptyContext
    /\ rem = [c \in Callers |-> RemIdle]
    /\ rlast = NoRemCall
    /\ client_call = NoCall

NextRemember ==
    \E c \in Callers :
       \/ \E n \in Names, return_memories \in BOOLEAN :
             Alone_in_set_project(c) /\ set_project(c, n, return_memories)
       \/ \E fault \in Outcomes : rem_try_get_by_name(c, fault)
       \/ \E fault \in Outcomes : rem_create_get(c, fault)
       \/ \E fault \in Outcomes : rem_create_put(c, fault)
       \/ \E fault \in Outcomes : rem_get_recent_documents(c, fault)
       \/ get_project_name(c)
       \/ \E new \in SUBSET DocumentIds, fault \in Outcomes : encodings(c, new, fault)
       \/ \E id \in DocumentIds, fault \in Outcomes : encoding(c, id, fault)
       \/ \E fault \in Outcomes : recall(c, fault)
       \/ \E fault \in Outcomes : recall_last(c, fault)
       \/ \E id \in DocumentIds, fault \in Outcomes : update_encoding(c, id, fault)
       \/ \E id \in DocumentIds, fault \in Outcomes : delete_encoding(c, id, fault)

SpecRemember == InitRemember /\ [][NextRemember]_vars

\* create requests of one caller and set_project requests of the other on the
\* one backend, made one after the other: a request begins when none is in
\* flight.
NextProject ==
    \E c \in Callers, fault \in Outcomes :
       \/ \E p \in CreateProtos :
             /\ c = "A" /\ \A o \in Callers : rem[o].pc = "idle"
             /\ create_get(c, p, fault)
       \/ create_put(c, fault)
       \/ \E n \in Names, return_memories \in BOOLEAN :
             /\ c = "B" /\ \A o \in Callers : task[o].pc = "idle"
             /\ set_project(c, n, return_memories)
       \/ rem_try_get_by_name(c, fault)
       \/ rem_create_get(c, fault)
       \/ rem_create_put(c, fault)
       \/ rem_get_recent_documents(c, fault)

SpecProject == InitKB /\ [][NextProject]_vars

\* The Remember tools of one caller and the Manager's update_by_name and
\* delete_by_name of the other, on the one backend and under one lifespan.
\* The project is "kb"; the requests of set_project and of the Manager are
\* all answered, and the Manager's update renames.
NextSnapshot ==
    \/ set_project("A", "kb", FALSE)
    \/ rem_try_get_by_name("A", "none")
    \/ rem_create_get("A", "none")
    \/ rem_create_put("A", "none")
    \/ \E fault \in Outcomes :
          \/ \E id \in DocumentIds : encoding("A", id, fault)
          \/ recall("A", fault)
          \/ recall_last("A", fault)
    \/ \E n \in Names, n2 \in Names :
          n2 # n /\ update_by_name_get("B", n, [name |-> n2, description |-> "d1"], "none")
    \/ update_put("B", "none")
    \/ \E n \in Names : delete_by_name_get("B", n, "none")
    \/ delete_put("B", "none")

SpecSnapshot == InitRemember /\ [][NextSnapshot]_vars

\* update_by_name requests, one after the other, over a backend that holds
\* some knowledge bases and their documents.
InitUpdate ==
    /\ \E names \in SUBSET Names, docs \in SUBSET DocumentIds :
          indices = [i \in DOMAIN backend_with(names) |->
                       [backend_with(names)[i] EXCEPT !.docs = docs]]
    /\ task = [c \in Callers |-> Idle]
    /\ hist = <<NoCall, NoCall>>
    /\ process = NotStarted
    /\ bulk = BulkIdle
    /\ learn = [c \in Callers |-> LearnIdle]
    /\ containers = NoIndices
    /\ ctx = EmptyContext
    /\ rem = [c \in Callers |-> RemIdle]
    /\ rlast = NoRemCall
    /\ client_call = NoCall

NextUpdate ==
    \E c \in Callers, fault \in Outcomes :
       \/ \E n \in Names, u \in UpdateProtos : Alone(c) /\ update_by_name_get(c, n, u, fault)
       \/ update_put(c, fault)

SpecUpdate == InitUpdate /\ [][NextUpdate]_vars

\* One client call, with its arguments drawn from the values tried.
InitCalls ==
    /\ indices = NoIndices
    /\ task = [c \in Callers |-> Idle]
    /\ hist = <<NoCall, NoCall>>
    /\ process = NotStarted
    /\ bulk = BulkIdle
    /\ learn = [c \in Callers |-> LearnIdle]
    /\ containers = NoIndices
    /\ ctx = EmptyContext
    /\ rem = [c \in Callers |-> RemIdle]
    /\ rlast = NoRemCall
    /\ \/ \E i \in IndexNames, n \in SeqsUpTo(NameChars, MaxNameLen) :
             client_call = [op |-> "update", index |-> i, name |-> n, result |-> "-",
                            meta_name |-> Chars("kb"), hit_name |-> Chars("kb")]
       \/ \E o \in {"get", "create", "update", "delete", "search", "update_document",
                     "delete_document"},
             p \in AllCreateProtos, suffix \in Suffixes, e \in Faults :
             client_call = [op |-> "request_fails", operation |-> o, proto |-> p,
                            index |-> index_names[p, suffix], exc |-> e, result |-> "-"]
       \/ \E N \in SUBSET Names, P \in SeqsUpTo(Phrases, MaxPhrases), e \in Outcomes,
             has \in BOOLEAN :
             \E R \in [1..Len(P) -> Responses] :
                client_call = [op |-> "search", names |-> N, phrases |-> P, exc |-> e,
                               has_responses |-> has, responses |-> R, result |-> "-",
                               entries |-> <<>>]
       \/ \E n \in Names, i \in IndexNames, D \in SeqsUpTo(Descriptions, MaxDocuments),
             e \in Outcomes :
             \E I \in [1..Len(D) -> {"created", "failed"}] :
                client_call = [op |-> "insert_documents", name |-> n, index |-> i,
                               documents |-> D, exc |-> e, items |-> I, result |-> "-",
                               stored |-> {}, requests |-> 0]
       \/ \E k \in 0..MaxChildLimit, noindex \in BOOLEAN, nofollow \in BOOLEAN,
             L \in SUBSET ((1..MaxChildLimit + 1) \X BOOLEAN), e \in {"none", "HTTPError"} :
             client_call = [op |-> "validate_crawl", limit |-> k, probe |-> e,
                            page_is_noindex |-> noindex, page_is_nofollow |-> nofollow,
                            links |-> L, result |-> "-"]
       \/ \E S \in SeqsUpTo({"exited", "running", "created"}, MaxContainers) :
             \E F \in SUBSET DOMAIN S :
                client_call = [op |-> "remove_completed_crawls", states |-> S, fails |-> F,
                               result |-> "-", gone |-> {}, removed |-> 0, total |-> 0]
       \/ \E H \in SeqsUpTo([backend_id : {Chars(index_prefix) \o <<"-", "1">>,
                                            Chars(index_prefix) \o <<"-", "2">>,
                                            <<"x", "-", "1">>},
                              name : {"a", "B", "b"}], MaxListed),
             e \in Outcomes :
             /\ \A i, j \in DOMAIN H : H[i].backend_id = H[j].backend_id => i = j
             /\ client_call = [op |-> "get", held |-> H, exc |-> e, result |-> "-",
                               listing |-> <<>>]
       \/ \E scheme \in {<<"h","t","t","p">>, <<"h","t","t","p","s">>},
             netloc \in {<<"e","x",".","c","o","m">>, <<"e","x",":","8","0">>},
             path \in {<<>>} \cup {<<"/">> \o t : t \in SeqsUpTo({"/", "a", "."}, MaxPathLen - 1)},
             rest \in {<<>>, <<"?","a","=","/",".">>, <<"#","a",".","a">>} :
             client_call = [op |-> "derive_crawl_params", scheme |-> scheme,
                            netloc |-> netloc, path |-> path,
                            url |-> scheme \o <<":","/","/">> \o netloc \o path \o rest,
                            result |-> "-", params |-> <<>>]
       \/ \E scheme \in {<<>>, <<"h","t","t","p","s",":","/","/">>},
             filler \in {"a", "-", DottedI},
             n \in {0, MaxIndexNameLen - 1},
             tail \in SeqsUpTo({"A", ".", "/", "-", "!", DottedI}, MaxTailLen),
             type \in {"docs", "memory"}, suffix \in {"0a1b2c3d"} :
             client_call = [op |-> "create_index_name", type |-> type, suffix |-> suffix,
                            data_source |-> scheme \o [i \in 1..n |-> filler] \o tail,
                            result |-> "-", id_middle |-> <<>>, index_name |-> <<>>]

NextCalls ==
    \/ update_name
    \/ request_fails
    \/ search_by_name
    \/ insert_documents
    \/ validate_crawl_of_page
    \/ remove_completed_crawls
    \/ get
    \/ derive_params
    \/ create_index_name

SpecCalls == InitCalls /\ [][NextCalls]_vars

\* main() from its first statement, for either transport and either answer
\* of the startup ping
InitMain ==
    /\ indices = NoIndices
    /\ task = [c \in Callers |-> Idle]
    /\ hist = <<NoCall, NoCall>>
    /\ bulk = BulkIdle
    /\ learn = [c \in Callers |-> LearnIdle]
    /\ containers = NoIndices
    /\ ctx = EmptyContext
    /\ rem = [c \in Callers |-> RemIdle]
    /\ rlast = NoRemCall
    /\ client_call = NoCall
    /\ \E ping \in BOOLEAN, transport \in {"stdio", "sse"} :
          process = [NotStarted EXCEPT !.pc = "main", !.ping = ping,
                                       !.transport = transport]

NextMain ==
    \/ main_ping
    \/ connection_context_manager
    \/ setup_servers
    \/ run_async
    \/ \E server \in Servers : serve_tool(server)
    \/ stop_serving

SpecMain == InitMain /\ [][NextMain]_vars

(***************************************************************************)
(* Claims about the Manager operations.                                    *)
(***************************************************************************)
\* the indices whose knowledge base has this name
named(name) == {i \in DOMAIN indices : indices[i].name = name}

\* C1: after any sequence of Manager create, update and delete operations no
\* two knowledge bases of the listing have the same name, also after an
\* update that renames one.
C1_NamesUnique ==
    \A i, j \in DOMAIN indices : indices[i].name = indices[j].name => i = j

\* C2: create(p) followed by create(p): the second call raises
\* KnowledgeBaseAlreadyExistsError (when the backend fails its listing request,
\* the retrieval error of that failure instead), and after it the backend holds
\* exactly one index for that name.
C2_SecondCreateRaises ==
    (/\ hist[1].op = "create" /\ hist[1].result = "ok"
     /\ hist[2].op = "create" /\ hist[2].name = hist[1].name
     /\ \A c \in Callers : task[c].pc = "idle")
    => /\ hist[2].result \in {"KnowledgeBaseAlreadyExistsError", "KnowledgeBaseRetrievalError"}
       /\ Cardinality(named(hist[2].name)) = 1

\* C2's case: a second create of the name just created was refused.
C2_Witness ==
    /\ hist[1] = [op |-> "create", name |-> "kb", result |-> "ok", raced |-> FALSE]
    /\ hist[2] = [op |-> "create", name |-> "kb",
                  result |-> "KnowledgeBaseAlreadyExistsError", raced |-> FALSE]
    /\ Cardinality(named("kb")) = 1

\* C3: a create whose name was taken by a concurrent create between its name
\* check and its indices.create does not succeed: two interleaved creates of
\* one name never both succeed.
C3_RacedCreateFails ==
    ~(hist[2].op = "create" /\ hist[2].raced /\ hist[2].result = "ok")

carries_request(results) ==
    \A k \in 1..Len(results) :
       /\ results[k].tool = bulk.requests[k].tool
       /\ results[k].arguments = bulk.requests[k].arguments

\* the name is the target of a delete_by_name among the first n requests
deleted_within(name, n) ==
    \E k \in 1..n : bulk.requests[k] = [tool |-> "delete_by_name", arguments |-> [name |-> name]]

\* C4: with continue_on_error = false a bulk call returns the results of the
\* calls up to and including the first that reports isError and invokes no
\* call after it (a knowledge base only later requests would delete is still
\* there); when no call reports isError it returns one result per request.
C4_HaltsAtFirstError ==
    (bulk.pc = "returned" /\ ~bulk.continue_on_error)
    => LET r == bulk.returned
           n == Len(r)
       IN  /\ n <= Len(bulk.requests)
           /\ carries_request(r)
           /\ \A k \in 1..(n - 1) : ~r[k].isError
           /\ n < Len(bulk.requests) => r[n].isError
           /\ bulk.invoked = [k \in 1..n |-> k]
           /\ \A i \in DOMAIN bulk.before :
                 ~deleted_within(bulk.before[i].name, n) => i \in DOMAIN indices

\* C4's case: the second of three calls failed, two results came back and the
\* knowledge base the third call would have deleted is still there.
C4_Witness ==
    /\ bulk.pc = "returned" /\ ~bulk.continue_on_error
    /\ Len(bulk.requests) = 3 /\ Len(bulk.returned) = 2
    /\ ~bulk.returned[1].isError /\ bulk.returned[2].isError
    /\ bulk.requests[3] = [tool |-> "delete_by_name", arguments |-> [name |-> "Kb"]]
    /\ named("Kb") # {}

\* C5: within one bulk call the tools are invoked one at a time in input
\* order (call k+1 begins only when call k has returned), the k-th result
\* carries the tool and arguments of the k-th request, and with
\* continue_on_error = true there is exactly one result per request.
C5_InInputOrder ==
    /\ bulk.invoked = [k \in 1..Len(bulk.invoked) |-> k]
    /\ Len(bulk.invoked) = Len(bulk.results) + (IF bulk.pc = "calling" THEN 1 ELSE 0)
    /\ carries_request(bulk.results)
    /\ (bulk.pc = "returned" /\ bulk.continue_on_error)
          => /\ Len(bulk.returned) = Len(bulk.requests)
             /\ carries_request(bulk.returned)

\* C5's case: the first of three calls failed and all three results came back.
C5_Witness ==
    /\ bulk.pc = "returned" /\ bulk.continue_on_error
    /\ Len(bulk.requests) = 3 /\ Len(bulk.returned) = 3
    /\ bulk.returned[1].isError /\ ~bulk.returned[3].isError
    /\ bulk.requests[1] # bulk.requests[3]

(***************************************************************************)
(* Claims about from_web_documentation and the crawl launch.               *)
(***************************************************************************)
\* the call of c is over
learn_done(c) == learn[c].pc = "idle" /\ learn[c].result # "-"

\* the seed page is one validate_crawl rejects: the fetch met an HTTP error
\* status, the page is noindex and nofollow, or it has too many urls
validation_fails(page) ==
    \/ page.raises = "HTTPError"
    \/ /\ page.raises = "none"
       /\ \/ page.page_is_noindex /\ page.page_is_nofollow
          \/ page.num_urls > max_child_page_limit

\* C6: from_web_documentation returns CrawlStartSuccess or CrawlStartFailure
\* and never raises, whatever validation, the lookup or creation of the
\* knowledge base and the container launch do.
C6_NeverRaises ==
    \A c \in Callers : learn_done(c) => learn[c].result \in {"CrawlStartSuccess", "CrawlStartFailure"}

\* C7: a request refused because validation failed, or because a knowledge
\* base of that name exists and overwrite is false, returns CrawlStartFailure
\* and has created no container and no knowledge base.
C7_RefusedCreatesNothing ==
    \A c \in Callers :
       (/\ learn_done(c)
        /\ \/ validation_fails(learn[c].page)
           \/ learn[c].found /\ ~learn[c].proto.overwrite)
       => /\ learn[c].result = "CrawlStartFailure"
          /\ ~learn[c].made_kb
          /\ learn[c].container = "-"
          /\ learn[c].failed_at = "-"

\* C7's case: one request was refused for a page with too many urls, another
\* for the existing knowledge base, and there is no container.
C7_Witness ==
    /\ learn_done("A") /\ learn["A"].reason = "CrawlerValidationTooManyURLsError"
    /\ learn_done("B") /\ learn["B"].found /\ ~learn["B"].proto.overwrite
    /\ learn["B"].result = "CrawlStartFailure"
    /\ DOMAIN containers = {}
    /\ Cardinality(named("kb")) = 1

\* C8: when put_archive or start fails after the container was created, the
\* launch deletes that container: a failed launch leaves no container behind.
C8_FailedLaunchRemovesContainer ==
    \A c \in Callers :
       (learn_done(c) /\ learn[c].failed_at \in {"put_archive", "start"})
       => learn[c].container \notin DOMAIN containers

(***************************************************************************)
(* Claims about the Remember tools and the project context.                *)
(***************************************************************************)
\* the Remember tools other than set_project
OtherRememberTools ==
    {"get_project_name", "encodings", "encoding", "recall", "recall_last",
     "update_encoding", "delete_encoding"}

\* C9: the project context is not shared between callers: a Remember tool a
\* caller runs after its own set_project uses the project and the knowledge
\* base that set_project put in the context, whatever set_project calls of
\* other callers came in between.
C9_UsesOwnProject ==
    (rlast.op \in OtherRememberTools /\ rlast.mine # NoKB)
    => /\ rlast.used.name = rlast.mine.name
       /\ rlast.op # "get_project_name" => rlast.used.backend_id = rlast.mine.backend_id

\* C10: until a set_project has succeeded, every other Remember tool raises
\* (the ValueError of the unset context) and makes no backend request.
C10_RaisesUntilSet ==
    (rlast.op \in OtherRememberTools /\ ~ctx.established)
    => (rlast.result = "ValueError" /\ ~rlast.touched)

\* C11: after set_project(P) returns, the context holds project name P and a
\* knowledge base named P of type memory, and there is one knowledge base
\* named P (an existing one is reused).
C11_ProjectIsMemoryKB ==
    (/\ rlast.op = "set_project" /\ rlast.result = "ok"
     /\ \A c \in Callers : rem[c].pc = "idle")
    => /\ ctx.project_name = rlast.used.name
       /\ ctx.knowledge_base.name = rlast.used.name
       /\ ctx.knowledge_base.type = "memory"
       /\ Cardinality(named(rlast.used.name)) = 1

(***************************************************************************)
(* Claims about client calls.                                              *)
(***************************************************************************)
\* C12: after update(kb, {name: N2}) has returned, the runtime field
\* knowledge_base_name emits N2, the name the metadata block holds, and a
\* later search hit of that index reports N2, for every name N2.
C12_RenameEmitsName ==
    (client_call.op = "update" /\ client_call.result = "ok")
    => /\ client_call.meta_name = client_call.name
       /\ client_call.hit_name = client_call.name

\* C14: an API error of the backend, other than not-found or conflict, inside
\* a client operation is raised as the error of that operation: Retrieval for
\* the listing, Creation for create, Update for update and update_document,
\* Deletion for delete and delete_document, Search for search.
C14_ErrorOfTheOperation ==
    (client_call.op = "request_fails" /\ client_call.result # "-"
       /\ client_call.exc = "ApiError")
    => client_call.result =
          CASE client_call.operation = "get" -> "KnowledgeBaseRetrievalError"
            [] client_call.operation = "create" -> "KnowledgeBaseCreationError"
            [] client_call.operation \in {"update", "update_document"} -> "KnowledgeBaseUpdateError"
            [] client_call.operation \in {"delete", "delete_document"} -> "KnowledgeBaseDeletionError"
            [] client_call.operation = "search" -> "KnowledgeBaseSearchError"

\* C15: for every phrase batch P and every name set N, search_by_name(N, P)
\* returns exactly len(P) entries and the i-th entry's phrase is P[i],
\* whatever the backend returns for each phrase.
C15_OneEntryPerPhrase ==
    (client_call.op = "search" /\ client_call.result # "-" /\ client_call.exc = "none")
    => /\ client_call.result = "ok"
       /\ Len(client_call.entries) = Len(client_call.phrases)
       /\ \A i \in 1..Len(client_call.entries) :
             client_call.entries[i].phrase = client_call.phrases[i]

\* C16: in a multi-phrase search, a phrase for which the backend returns no
\* hit or an error of that phrase alone yields an error entry at the position
\* of the phrase and does not abort the batch: when the batch without that
\* phrase returns, the batch with it returns too, and its entries for the
\* other phrases are those of the batch without it.
C16_NoHitsIsAnEntry ==
    (client_call.op = "search" /\ client_call.result # "-" /\ client_call.exc = "none"
       /\ client_call.has_responses)
    => \A i \in 1..Len(client_call.phrases) :
          client_call.responses[i].hits = <<>>
          => LET rest(s) == SubSeq(s, 1, i - 1) \o SubSeq(s, i + 1, Len(s))
                 without == IF Len(client_call.phrases) = 1
                            THEN [result |-> "ok", entries |-> <<>>]
                            ELSE search_outcome(rest(client_call.phrases), "none", TRUE,
                                                rest(client_call.responses))
             IN  without.result = "ok"
                 => /\ client_call.result = "ok"
                    /\ Len(client_call.entries) = Len(client_call.phrases)
                    /\ client_call.entries[i] =
                          [phrase |-> client_call.phrases[i],
                           error |-> "No hits found in one of the search responses."]
                    /\ rest(client_call.entries) = without.entries

\* A search of two phrases has returned: one phrase had an error of its own
\* or no hit, the other had hits.
C16_Witness ==
    /\ client_call.op = "search" /\ client_call.result = "ok"
    /\ client_call.exc = "none" /\ client_call.has_responses
    /\ Len(client_call.phrases) = 2 /\ Len(client_call.entries) = 2
    /\ \E i, j \in 1..2 : /\ client_call.responses[i].error
                          /\ client_call.responses[j].hits # <<>>

\* C17: search called with an empty list of phrases returns an empty list and
\* raises nothing.
C17_EmptySearchReturnsEmpty ==
    (client_call.op = "search" /\ client_call.result # "-" /\ client_call.exc = "none"
       /\ client_call.names = {} /\ client_call.phrases = <<>>)
    => client_call.result = "ok" /\ client_call.entries = <<>>

C19_LimitIsInclusive ==
    (client_call.op = "validate_crawl" /\ client_call.result # "-"
       /\ client_call.probe = "none"
       /\ ~(client_call.page_is_noindex /\ client_call.page_is_nofollow))
    => LET followed == {l \in client_call.links : ~l[2]}
           crawlable == {l[1] : l \in followed}
       IN  /\ Cardinality(crawlable) = client_call.limit => client_call.result = "ok"
           /\ Cardinality(crawlable) = client_call.limit + 1
              => client_call.result = "CrawlerValidationTooManyURLsError"
           /\ (client_call.result = "ok")
              <=> validate_crawl(extract_urls_from_webpage(client_call.page_is_noindex,
                                                           client_call.page_is_nofollow,
                                                           followed),
                                 client_call.limit) = "none"

\* validate_crawl has accepted a page that has as many urls to crawl as the
\* limit, at least one, and nofollow links to other urls besides.
C19_Witness ==
    /\ client_call.op = "validate_crawl" /\ client_call.result = "ok"
    /\ client_call.limit >= 1
    /\ LET crawlable == {l[1] : l \in {k \in client_call.links : ~k[2]}}
           skipped == {l[1] : l \in {k \in client_call.links : k[2]}}
       IN  Cardinality(crawlable) = client_call.limit /\ skipped \ crawlable # {}

\* C20: from_web_documentation applies the max_child_page_limit its caller
\* supplies (500 when none is supplied) to the validation: with limit k it
\* returns CrawlStartFailure when the seed page has more than k urls to crawl
\* and goes on to the launch when it has k or fewer.  The signature takes no
\* limit, so a call carries none: k ranges over the limits a caller can ask for.
C20_AppliesCallerLimit ==
    \A c \in Callers, k \in {max_child_page_limit - 1, max_child_page_limit} :
       LET t == learn[c]
       IN  (t.page # NoPage /\ t.page.raises = "none"
              /\ ~(t.page.page_is_noindex /\ t.page.page_is_nofollow))
           => IF t.page.num_urls > k
              THEN /\ t.pc = "idle" /\ t.result = "CrawlStartFailure"
                   /\ t.reason = "CrawlerValidationTooManyURLsError"
              ELSE t.reason # "CrawlerValidationTooManyURLsError"

\* C21: remove_completed_crawls removes every managed container whose state
\* is exited and none in another state; a removal that fails is collected and
\* not raised, and the remaining ones are still removed; removed is the number
\* of containers removed and total the number of managed containers listed.
C21_RemovesEveryExited ==
    (client_call.op = "remove_completed_crawls" /\ client_call.result # "-")
    => LET exited == {p \in DOMAIN client_call.states : client_call.states[p] = "exited"}
       IN  /\ client_call.result = "ok"
           /\ client_call.gone = exited \ client_call.fails
           /\ client_call.removed = Cardinality(client_call.gone)
           /\ client_call.total = Len(client_call.states)

\* C22: while one request waits on the web probe, on a backend request, on a
\* call of the container adapter or on the archive injection, the other
\* requests can make progress: whenever a from_web_documentation call waits
\* on one of these, a request that another caller sends can begin.
C22_OthersProgressDuringIO ==
    \A c \in Callers, o \in Callers :
       (o # c /\ learn[c].pc # "idle" /\ learn[o].pc = "idle") => ENABLED learn_step(o)

\* C23: the listing returns every knowledge base whose backend_id matches the
\* pattern <prefix>-*, each exactly once, ordered by name compared without
\* regard to case.
C23_ListedOnceInNameOrder ==
    (client_call.op = "get" /\ client_call.result = "ok")
    => LET held == client_call.held
           listing == client_call.listing
           matching == {i \in DOMAIN held :
                          startswith(held[i].backend_id, Chars(index_prefix) \o <<"-">>)}
       IN  /\ \A i \in matching :
                 Cardinality({l \in DOMAIN listing : listing[l] = held[i]}) = 1
           /\ Len(listing) = Cardinality(matching)
           /\ \A l, m \in DOMAIN listing :
                 l < m => name_order(listing[l].name) <= name_order(listing[m].name)

\* The listing has returned two knowledge bases, B after a, which the backend
\* held in the other order beside an index of another prefix.
C23_Witness ==
    /\ client_call.op = "get" /\ client_call.result = "ok"
    /\ Len(client_call.held) = 3 /\ Len(client_call.listing) = 2
    /\ client_call.listing[1].name = "a" /\ client_call.listing[2].name = "B"
    /\ \E i, j \in 1..3 : /\ i < j
                          /\ client_call.held[i] = client_call.listing[2]
                          /\ client_call.held[j] = client_call.listing[1]

\* C24: a crawl launch creates the container, then puts the configuration
\* archive at /, then starts the container, in that order: no crawl container
\* is running without its configuration file in it, a container is started
\* in a step that finds the file in it, and the container id is returned only
\* once the start has succeeded.
C24_InjectedBeforeStarted ==
    /\ \A id \in DOMAIN containers :
          containers[id].state = "running" => containers[id].files = {"/"}
    /\ \A c \in Callers :
          (learn[c].pc = "idle" /\ learn[c].result = "CrawlStartSuccess")
          => /\ learn[c].container \in DOMAIN containers
             /\ containers[learn[c].container].state = "running"

\* A from_web_documentation call has returned CrawlStartSuccess: its
\* container is running and holds the configuration file.
C24_Witness ==
    \E c \in Callers :
       /\ learn[c].pc = "idle" /\ learn[c].result = "CrawlStartSuccess"
       /\ containers[learn[c].container].state = "running"
       /\ containers[learn[c].container].files = {"/"}

\* C25: validate_crawl fails with the noindex+nofollow validation error only
\* when the page reports both directives (either one alone passes), and it
\* checks the probe error first, then noindex+nofollow, then the number of
\* urls: a page that has both directives and more urls than the limit fails
\* with the noindex+nofollow error.
C25_BothDirectivesBeforeTheCount ==
    (client_call.op = "validate_crawl" /\ client_call.result # "-")
    => LET both == client_call.page_is_noindex /\ client_call.page_is_nofollow
       IN  IF client_call.probe = "HTTPError"
           THEN client_call.result = "CrawlerValidationHTTPError"
           ELSE /\ client_call.result = "CrawlerValidationNoIndexNofollowError" <=> both
                /\ ~both => client_call.result \in {"ok", "CrawlerValidationTooManyURLsError"}

\* validate_crawl has refused, for its two directives, a page that also has
\* more urls to crawl than the limit.
C25_Witness ==
    /\ client_call.op = "validate_crawl" /\ client_call.probe = "none"
    /\ client_call.result = "CrawlerValidationNoIndexNofollowError"
    /\ Cardinality({l[1] : l \in {k \in client_call.links : ~k[2]}}) > client_call.limit

\* C26: derive_crawl_params(U) returns seed_url = U, domain = the scheme and
\* the authority of U joined by ://, and filter_pattern = the path of U,
\* except that when the path does not end in / and its last segment holds a
\* dot, filter_pattern is the path cut just after its last / (/ if that is
\* empty); a url with no path gives an empty filter_pattern.
C26_FilterIsPathOrItsDirectory ==
    (client_call.op = "derive_crawl_params" /\ client_call.result # "-")
    => LET path == client_call.path
           slashes == {i \in DOMAIN path : path[i] = "/"}
           last_slash == IF slashes = {} THEN 0
                         ELSE CHOOSE i \in slashes : \A j \in slashes : j <= i
           is_file == /\ path # <<>> /\ path[Len(path)] # "/"
                      /\ \E i \in (last_slash + 1)..Len(path) : path[i] = "."
       IN  /\ client_call.params.seed_url = client_call.url
           /\ client_call.params.domain =
                 client_call.scheme \o <<":", "/", "/">> \o client_call.netloc
           /\ client_call.params.filter_pattern =
                 IF is_file
                 THEN IF last_slash = 0 THEN <<"/">> ELSE SubSeq(path, 1, last_slash)
                 ELSE path
           /\ path = <<>> => client_call.params.filter_pattern = <<>>

\* derive_crawl_params has cut the file name from a path of two segments, in
\* a url that goes on with a query.
C26_Witness ==
    /\ client_call.op = "derive_crawl_params" /\ client_call.result # "-"
    /\ client_call.path = <<"/", "a", "/", ".">>
    /\ client_call.params.filter_pattern = <<"/", "a", "/">>
    /\ client_call.url # client_call.scheme \o <<":", "/", "/">> \o client_call.netloc
                         \o client_call.path

\* C27: create builds backend_id as <prefix>-<type>.<S(data_source)>-<8 hex
\* digits>, where S removes the http(s) scheme, maps . to _, / to . and - to
\* _, drops every other character that is not alphanumeric, truncates to 50
\* characters, strips leading and trailing ., _ and - and lower-cases: S(u)
\* has at most 50 characters, all of them lower-case alphanumerics, ., _ or
\* -, and never starts or ends with ., _ or -.
C27_IndexNameIsSanitized ==
    (client_call.op = "create_index_name" /\ client_call.result # "-")
    => LET S == client_call.id_middle
       IN  /\ client_call.index_name =
                 Chars(index_prefix) \o <<"-">> \o Chars(client_call.type) \o <<".">> \o S
                 \o <<"-">> \o Chars(client_call.suffix)
           /\ Len(S) <= MaxIndexNameLen
           /\ \A i \in DOMAIN S : KeptInIndexName(S[i]) /\ S[i] \notin Range(UpperLetters)
           /\ S # <<>> => S[1] \notin {".", "_", "-"} /\ S[Len(S)] \notin {".", "_", "-"}

\* C28: the backend client handed to the Manager stays open from the startup
\* ping until the tool surface stops serving: whenever tools can be called,
\* the process has not closed the backend connection, and no tool call was
\* served on a closed one.
C28_ClientOpenWhileServing ==
    /\ process.pc = "serving" => process.connection = "open"
    /\ \A i \in DOMAIN process.called : process.called[i].connection = "open"

\* _phrase_to_query: the documents a search by knowledge base names matches
\* are those of the indices whose runtime field knowledge_base_name, the
\* name in the index's metadata block, is one of the names
recalled(idx, knowledge_base_names) ==
    UNION {idx[i].docs : i \in {j \in DOMAIN idx : idx[j].name \in knowledge_base_names}}

\* C29: the knowledge base set_project recorded stays valid for later
\* Remember calls: a recall that is answered returns the memories stored in
\* the index of that knowledge base, also after the Manager renamed it, and
\* a Remember tool makes no request on a backend_id that was deleted.
C29_SnapshotStaysValid ==
    [][\A fault \in Outcomes :
          LET kb == ctx.knowledge_base
          IN  /\ (/\ recall("A", fault) /\ fault = "none"
                  /\ kb # NoKB /\ kb.backend_id \in DOMAIN indices)
                 => indices[kb.backend_id].docs \subseteq recalled(indices, {kb.name})
              /\ (/\ \/ recall("A", fault) \/ recall_last("A", fault)
                      \/ \E id \in DocumentIds : encoding("A", id, fault)
                   /\ rlast'.touched /\ kb # NoKB)
                 => kb.backend_id \in DOMAIN indices]_vars

\* C30: when from_web_documentation created a new knowledge base and the
\* container launch then failed, the call that returned CrawlStartFailure
\* leaves behind no knowledge base it created itself, so the same request
\* made again with overwrite = false is not refused as already existing.
C30_FailedLaunchLeavesNoKB ==
    \A c \in Callers :
       (/\ learn_done(c) /\ learn[c].result = "CrawlStartFailure"
        /\ learn[c].made_kb /\ learn[c].failed_at # "-")
       => /\ learn[c].index \notin DOMAIN indices
          /\ ~refuses_existing(name_exists(current_kbs(indices), learn[c].proto.name), FALSE)

====
